---- MODULE Spec2Model ----
(***************************************************************************)
(* A model of the Gradient research data pipeline:                         *)
(*   - gather.py: the per-agent gather orchestrator (run_source,           *)
(*     store_source_result, trigger_reindex, gather, _source_label);       *)
(*   - gather_fundamentals.py: the XBRL concept extractor                  *)
(*     (_extract_concept_data).                                            *)
(* Python strings are TLA+ strings (concatenated with \o, sliced with      *)
(* SubSeq); Optional[x] is the empty tuple (None) or the 1-tuple <<x>>;    *)
(* a Python call is an operator returning an outcome record                *)
(* [raised, value, msg, effects]: either a returned value or a raised      *)
(* fault, together with the external calls it made (each logged with       *)
(* whether the callee raised).                                             *)
(***************************************************************************)
EXTENDS Integers, Sequences, FiniteSets, TLC

VARIABLES
    pc,              \* position of the gather() invocation
    ticker,          \* gather() argument
    agent,           \* gather() argument
    sources_arg,     \* gather() argument `sources` as passed (None or a list)
    dry_run,         \* gather() argument
    timestamp,       \* gather.py:242, the invocation timestamp
    store_module,    \* names the module `store` exports in this environment
    sources,         \* gather.py:245-246, the resolved source list
    i,               \* index of the loop of gather.py:264 / gather.py:275
    gather_results,  \* gather.py:263
    store_results,   \* gather.py:273
    any_stored,      \* gather.py:274
    reindex_result,  \* gather.py:295-298
    ret,             \* the value gather() returned (None while running)
    calls,           \* the log of external calls gather() has made so far
    x_in,            \* input of the call under study, for the extractor
                     \* [facts, concept_names, years, now_year]
    x_out            \* its output: None, or the outcome of the call

gvars == <<pc, ticker, agent, sources_arg, dry_run, timestamp, store_module,
           sources, i, gather_results, store_results, any_stored,
           reindex_result, ret, calls>>
vars == <<pc, ticker, agent, sources_arg, dry_run, timestamp, store_module,
          sources, i, gather_results, store_results, any_stored,
          reindex_result, ret, calls, x_in, x_out>>

----------------------------------------------------------------------------
(* Bounds *)

MaxSources == 3

MaxEntries == 3

\* the command lines run one after the other at most
MaxCalls == 2

----------------------------------------------------------------------------
(* Python values *)

None == <<>>

Some(v) == <<v>>

Get(d, k, default) == IF k \in DOMAIN d THEN d[k] ELSE default

Min(a, b) == IF a < b THEN a ELSE b

Slice(s, n) == SubSeq(s, 1, Min(n, Len(s)))

Digit(d) ==
    CASE d = 0 -> "0" [] d = 1 -> "1" [] d = 2 -> "2" [] d = 3 -> "3"
      [] d = 4 -> "4" [] d = 5 -> "5" [] d = 6 -> "6" [] d = 7 -> "7"
      [] d = 8 -> "8" [] d = 9 -> "9"

RECURSIVE Str(_)
Str(n) == IF n < 10 THEN Digit(n) ELSE Str(n \div 10) \o Digit(n % 10)

RECURSIVE Join(_, _)
Join(parts, sep) ==
    IF Len(parts) = 0 THEN ""
    ELSE IF Len(parts) = 1 THEN parts[1]
    ELSE LET half == Len(parts) \div 2
         IN  Join(SubSeq(parts, 1, half), sep) \o sep
                 \o Join(SubSeq(parts, half + 1, Len(parts)), sep)

RECURSIVE Contains(_, _)
Contains(s, sub) ==
    IF Len(sub) > Len(s) THEN FALSE
    ELSE IF SubSeq(s, 1, Len(sub)) = sub THEN TRUE
    ELSE Contains(SubSeq(s, 2, Len(s)), sub)

StartsWith(s, pre) == Len(pre) <= Len(s) /\ SubSeq(s, 1, Len(pre)) = pre

\* the indices, from k on and in order, at which a sequence of flags is TRUE
RECURSIVE IdxWhere(_, _)
IdxWhere(flags, k) ==
    IF k > Len(flags) THEN << >>
    ELSE (IF flags[k] THEN <<k>> ELSE << >>) \o IdxWhere(flags, k + 1)

Returned(v, eff) == [raised |-> FALSE, value |-> v, msg |-> "", effects |-> eff]

Raised(m, eff) == [raised |-> TRUE, value |-> None, msg |-> m, effects |-> eff]

\* a fault with the class of the exception, for the callers whose except
\* clauses tell the classes apart
RaisedOf(type, m, eff) ==
    [raised |-> TRUE, value |-> None, msg |-> m, effects |-> eff, type |-> type]

----------------------------------------------------------------------------
(* gather.py: registries *)

SOURCE_REGISTRY ==
    [web |-> <<"gather_web", "gather_web">>,
     fundamentals |-> <<"gather_fundamentals", "gather_fundamentals">>,
     social |-> <<"gather_social", "gather_social">>,
     technicals |-> <<"gather_technicals", "gather_technicals">>]

AGENT_SOURCES ==
    [nova |-> <<"web", "fundamentals">>,
     luna |-> <<"social">>,
     ace |-> <<"technicals">>,
     max |-> << >>]

----------------------------------------------------------------------------
(* The environment of gather(): what the gather functions and the sinks do *)

ExamplePayload ==
    [markdown |-> "# Report", metric_count |-> 16, article_count |-> 3,
     filing_count |-> 2, post_count |-> 10, signal_count |-> 4]

EmptyPayload == [markdown |-> ""]

\* A gather function returns a dict, returns None, or raises.
FetchOutcomes ==
    { Returned(Some(ExamplePayload), << >>),
      Returned(Some(EmptyPayload), << >>),
      Returned(None, << >>),
      Raised("API unavailable", << >>) }

\* store.upload_to_spaces returns a result dict or raises, an ImportError
\* (of a module it imports when called) or another exception.
UploadOutcomes ==
    { Returned([success |-> TRUE, key |-> "research/k.md", message |-> "Uploaded"], << >>),
      Returned([success |-> FALSE, key |-> "", message |-> "Spaces rejected the upload"], << >>),
      RaisedOf("ConnectionError", "connection reset", << >>),
      RaisedOf("ImportError", "No module named 'boto3'", << >>) }

\* store.trigger_kb_reindex returns a result dict or raises, an ImportError
\* or another exception.
ReindexOutcomes ==
    { Returned([success |-> TRUE, message |-> "Indexing job started"], << >>),
      Returned([success |-> FALSE, message |-> "Indexing job rejected"], << >>),
      RaisedOf("TimeoutError", "timeout", << >>),
      RaisedOf("ImportError", "No module named 'requests'", << >>) }

StoreModules == SUBSET {"upload_to_spaces", "trigger_kb_reindex"}

Tickers == {"CAKE"}

Timestamps == {"2026-10-29T08:15:00+00:00"}

\* gather.py:62
VALID_AGENTS == {"nova", "luna", "ace", "max"}

\* the agent names gather() is called with: gather() does not test the name
\* against VALID_AGENTS (only main() does), so a call may carry any name
Agents == VALID_AGENTS \cup {"zed"}

\* the names a caller of gather() may put in its `sources` list: gather()
\* takes the list as it is, registered names or not, and the empty list too
ListedSources == {"web", "fundamentals", "custom"}

RECURSIVE ListsUpTo(_, _)
ListsUpTo(S, n) ==
    IF n = 0 THEN { << >> }
    ELSE LET shorter == ListsUpTo(S, n - 1)
         IN  shorter \cup { Append(l, s) : l \in { m \in shorter : Len(m) = n - 1 }, s \in S }

SourceLists == ListsUpTo(ListedSources, MaxSources)

\* (agent, sources) arguments of a call of gather(): every agent with its
\* defaults (sources=None), and an explicit list for one agent.
GatherArgs ==
    { <<a, None>> : a \in Agents } \cup { <<"ace", Some(l)>> : l \in SourceLists }

----------------------------------------------------------------------------
(* Faulty variants of the code below, each the slip a claim must detect *)

\* run_source without its try/except: a fault of the gather function escapes
run_source_unguarded(source, tk, fetch) ==
    IF source \notin DOMAIN SOURCE_REGISTRY
    THEN Returned([source |-> source, success |-> FALSE, markdown |-> "",
                   metric_count |-> 0,
                   error |-> Some("Unknown source: " \o source)], << >>)
    ELSE
      LET eff == << [op |-> "import", name |-> SOURCE_REGISTRY[source][1]],
                    [op |-> "fetch", name |-> SOURCE_REGISTRY[source][2],
                     ticker |-> tk, raised |-> fetch.raised, msg |-> fetch.msg,
                     value |-> fetch.value] >>
      IN  IF fetch.raised THEN Raised(fetch.msg, eff)
          ELSE IF fetch.value = None
          THEN Raised("'NoneType' object has no attribute 'get'", eff)
          ELSE Returned([source |-> source, success |-> TRUE,
                         markdown |-> Get(fetch.value[1], "markdown", ""),
                         metric_count |-> 0, error |-> None], eff)

\* run_source looking the source up only after importing a module named
\* after it
run_source_imports_first(source, tk, fetch) ==
    IF source \notin DOMAIN SOURCE_REGISTRY
    THEN Returned([source |-> source, success |-> FALSE, markdown |-> "",
                   metric_count |-> 0,
                   error |-> Some("Unknown source: " \o source)],
                  << [op |-> "import", name |-> "gather_" \o source] >>)
    ELSE
      LET eff == << [op |-> "import", name |-> SOURCE_REGISTRY[source][1]],
                    [op |-> "fetch", name |-> SOURCE_REGISTRY[source][2],
                     ticker |-> tk, raised |-> fetch.raised, msg |-> fetch.msg,
                     value |-> fetch.value] >>
          failed(m) == Returned([source |-> source, success |-> FALSE,
                                 markdown |-> "", metric_count |-> 0,
                                 error |-> Some(m)], eff)
      IN  IF fetch.raised THEN failed(fetch.msg)
          ELSE IF fetch.value = None
          THEN failed("'NoneType' object has no attribute 'get'")
          ELSE LET result == fetch.value[1]
                   metric_count ==
                       CASE source = "web" ->
                              Get(result, "article_count", 0) + Get(result, "filing_count", 0)
                         [] source = "fundamentals" -> Get(result, "metric_count", 0)
                         [] source = "social" -> Get(result, "post_count", 0)
                         [] source = "technicals" -> Get(result, "signal_count", 0)
                         [] OTHER -> 0
               IN  Returned([source |-> source, success |-> TRUE,
                             markdown |-> Get(result, "markdown", ""),
                             metric_count |-> metric_count, error |-> None], eff)

\* run_source reporting a fixed text instead of the fault's message
run_source_fixed_error(source, tk, fetch) ==
    IF source \notin DOMAIN SOURCE_REGISTRY
    THEN Returned([source |-> source, success |-> FALSE, markdown |-> "",
                   metric_count |-> 0,
                   error |-> Some("Unknown source: " \o source)], << >>)
    ELSE
      LET eff == << [op |-> "import", name |-> SOURCE_REGISTRY[source][1]],
                    [op |-> "fetch", name |-> SOURCE_REGISTRY[source][2],
                     ticker |-> tk, raised |-> fetch.raised, msg |-> fetch.msg,
                     value |-> fetch.value] >>
          failed == Returned([source |-> source, success |-> FALSE,
                              markdown |-> "", metric_count |-> 0,
                              error |-> Some("gather failed")], eff)
      IN  IF fetch.raised THEN failed
          ELSE IF fetch.value = None THEN failed
          ELSE LET result == fetch.value[1]
                   metric_count ==
                       CASE source = "web" ->
                              Get(result, "article_count", 0) + Get(result, "filing_count", 0)
                         [] source = "fundamentals" -> Get(result, "metric_count", 0)
                         [] source = "social" -> Get(result, "post_count", 0)
                         [] source = "technicals" -> Get(result, "signal_count", 0)
                         [] OTHER -> 0
               IN  Returned([source |-> source, success |-> TRUE,
                             markdown |-> Get(result, "markdown", ""),
                             metric_count |-> metric_count, error |-> None], eff)

(* gather.py:68-131 *)

run_source(source, tk, fetch) ==
    IF source \notin DOMAIN SOURCE_REGISTRY
    THEN Returned([source |-> source, success |-> FALSE, markdown |-> "",
                   metric_count |-> 0,
                   error |-> Some("Unknown source: " \o source)], << >>)
    ELSE
      LET module_name == SOURCE_REGISTRY[source][1]
          func_name == SOURCE_REGISTRY[source][2]
          eff == << [op |-> "import", name |-> module_name],
                    [op |-> "fetch", name |-> func_name, ticker |-> tk,
                     raised |-> fetch.raised, msg |-> fetch.msg,
                     value |-> fetch.value] >>
          failed(m) == Returned([source |-> source, success |-> FALSE,
                                 markdown |-> "", metric_count |-> 0,
                                 error |-> Some(m)], eff)
      IN  IF fetch.raised THEN failed(fetch.msg)
          ELSE IF fetch.value = None
          THEN failed("'NoneType' object has no attribute 'get'")
          ELSE
            LET result == fetch.value[1]
                markdown == Get(result, "markdown", "")
                metric_count ==
                    CASE source = "web" ->
                           Get(result, "article_count", 0) + Get(result, "filing_count", 0)
                      [] source = "fundamentals" -> Get(result, "metric_count", 0)
                      [] source = "social" -> Get(result, "post_count", 0)
                      [] source = "technicals" -> Get(result, "signal_count", 0)
                      [] OTHER -> 0
            IN  Returned([source |-> source, success |-> TRUE,
                          markdown |-> markdown, metric_count |-> metric_count,
                          error |-> None], eff)

StoreUnavailable ==
    Returned([success |-> FALSE, key |-> "",
              message |-> "store.py not available - cannot upload to Spaces"], << >>)

DryRunStored(tk, source, ts) ==
    LET key == "research/" \o Slice(ts, 10) \o "/" \o tk \o "_" \o source \o ".md"
    IN  Returned([success |-> TRUE, key |-> key,
                  message |-> "[DRY RUN] Would upload to " \o key], << >>)

\* store_source_result passing ticker and source in each other's place
store_source_result_swapped(tk, source, markdown, ts, dry, mod, upload) ==
    IF dry THEN DryRunStored(tk, source, ts)
    ELSE IF "upload_to_spaces" \notin mod THEN StoreUnavailable
    ELSE
      LET eff == << [op |-> "upload_to_spaces", markdown_content |-> markdown,
                     ticker |-> source, source |-> tk, timestamp |-> ts,
                     raised |-> upload.raised] >>
      IN  IF upload.raised /\ upload.type = "ImportError"
          THEN Returned([success |-> FALSE, key |-> "",
                         message |-> "store.py not available - cannot upload to Spaces"],
                        eff)
          ELSE IF upload.raised
          THEN Returned([success |-> FALSE, key |-> "",
                         message |-> "Upload failed: " \o upload.msg], eff)
          ELSE Returned(upload.value, eff)

\* store_source_result without the dry-run branch
store_source_result_no_dry_run(tk, source, markdown, ts, dry, mod, upload) ==
    IF "upload_to_spaces" \notin mod THEN StoreUnavailable
    ELSE
      LET eff == << [op |-> "upload_to_spaces", markdown_content |-> markdown,
                     ticker |-> tk, source |-> source, timestamp |-> ts,
                     raised |-> upload.raised] >>
      IN  IF upload.raised /\ upload.type = "ImportError"
          THEN Returned([success |-> FALSE, key |-> "",
                         message |-> "store.py not available - cannot upload to Spaces"],
                        eff)
          ELSE IF upload.raised
          THEN Returned([success |-> FALSE, key |-> "",
                         message |-> "Upload failed: " \o upload.msg], eff)
          ELSE Returned(upload.value, eff)

\* store_source_result catching ImportError only: an upload fault escapes
store_source_result_unguarded(tk, source, markdown, ts, dry, mod, upload) ==
    IF dry THEN DryRunStored(tk, source, ts)
    ELSE IF "upload_to_spaces" \notin mod THEN StoreUnavailable
    ELSE
      LET eff == << [op |-> "upload_to_spaces", markdown_content |-> markdown,
                     ticker |-> tk, source |-> source, timestamp |-> ts,
                     raised |-> upload.raised] >>
      IN  IF upload.raised /\ upload.type = "ImportError"
          THEN Returned([success |-> FALSE, key |-> "",
                         message |-> "store.py not available - cannot upload to Spaces"],
                        eff)
          ELSE IF upload.raised THEN Raised(upload.msg, eff)
          ELSE Returned(upload.value, eff)

(* gather.py:137-187; the except ImportError clause (175-181) guards the   *)
(* import and the call of upload_to_spaces alike.  The em dash of the two "store.py not available"      *)
(* messages and of "No data stored" is written "-": TLA+ strings are ASCII. *)

store_source_result(tk, source, markdown, ts, dry, mod, upload) ==
    IF dry
    THEN LET date_str == Slice(ts, 10)
             key == "research/" \o date_str \o "/" \o tk \o "_" \o source \o ".md"
         IN  Returned([success |-> TRUE, key |-> key,
                       message |-> "[DRY RUN] Would upload to " \o key], << >>)
    ELSE IF "upload_to_spaces" \notin mod
    THEN Returned([success |-> FALSE, key |-> "",
                   message |-> "store.py not available - cannot upload to Spaces"], << >>)
    ELSE
      LET eff == << [op |-> "upload_to_spaces", markdown_content |-> markdown,
                     ticker |-> tk, source |-> source, timestamp |-> ts,
                     raised |-> upload.raised] >>
      IN  IF upload.raised /\ upload.type = "ImportError"
          THEN Returned([success |-> FALSE, key |-> "",
                         message |-> "store.py not available - cannot upload to Spaces"],
                        eff)
          ELSE IF upload.raised
          THEN Returned([success |-> FALSE, key |-> "",
                         message |-> "Upload failed: " \o upload.msg], eff)
          ELSE Returned(upload.value, eff)

\* trigger_reindex without the dry-run branch
trigger_reindex_no_dry_run(dry, mod, reindex) ==
    IF "trigger_kb_reindex" \notin mod
    THEN Returned([success |-> FALSE,
                   message |-> "store.py not available - cannot trigger reindex"], << >>)
    ELSE
      LET eff == << [op |-> "trigger_kb_reindex", raised |-> reindex.raised] >>
      IN  IF reindex.raised /\ reindex.type = "ImportError"
          THEN Returned([success |-> FALSE,
                         message |-> "store.py not available - cannot trigger reindex"],
                        eff)
          ELSE IF reindex.raised
          THEN Returned([success |-> FALSE,
                         message |-> "Reindex failed: " \o reindex.msg], eff)
          ELSE Returned(reindex.value, eff)

\* trigger_reindex whose dry-run placeholder reports a failure
trigger_reindex_dry_run_fails(dry, mod, reindex) ==
    IF dry
    THEN Returned([success |-> FALSE, message |-> "[DRY RUN] Would trigger KB reindex"], << >>)
    ELSE IF "trigger_kb_reindex" \notin mod
    THEN Returned([success |-> FALSE,
                   message |-> "store.py not available - cannot trigger reindex"], << >>)
    ELSE
      LET eff == << [op |-> "trigger_kb_reindex", raised |-> reindex.raised] >>
      IN  IF reindex.raised /\ reindex.type = "ImportError"
          THEN Returned([success |-> FALSE,
                         message |-> "store.py not available - cannot trigger reindex"],
                        eff)
          ELSE IF reindex.raised
          THEN Returned([success |-> FALSE,
                         message |-> "Reindex failed: " \o reindex.msg], eff)
          ELSE Returned(reindex.value, eff)

(* gather.py:190-208; the except ImportError clause (205-206) guards the
   import and the call of trigger_kb_reindex alike *)

trigger_reindex(dry, mod, reindex) ==
    IF dry
    THEN Returned([success |-> TRUE, message |-> "[DRY RUN] Would trigger KB reindex"], << >>)
    ELSE IF "trigger_kb_reindex" \notin mod
    THEN Returned([success |-> FALSE,
                   message |-> "store.py not available - cannot trigger reindex"], << >>)
    ELSE
      LET eff == << [op |-> "trigger_kb_reindex", raised |-> reindex.raised] >>
      IN  IF reindex.raised /\ reindex.type = "ImportError"
          THEN Returned([success |-> FALSE,
                         message |-> "store.py not available - cannot trigger reindex"],
                        eff)
          ELSE IF reindex.raised
          THEN Returned([success |-> FALSE,
                         message |-> "Reindex failed: " \o reindex.msg], eff)
          ELSE Returned(reindex.value, eff)

\* _source_label with the labels of two sources exchanged
_source_label_exchanged(source, count) ==
    CASE source = "web" -> Str(count) \o " financial metrics"
      [] source = "fundamentals" -> Str(count) \o " articles/filings"
      [] source = "social" -> Str(count) \o " social posts"
      [] source = "technicals" -> Str(count) \o " technical signals"
      [] OTHER -> Str(count) \o " items from " \o source

(* gather.py:337-345 *)

_source_label(source, count) ==
    CASE source = "web" -> Str(count) \o " articles/filings"
      [] source = "fundamentals" -> Str(count) \o " financial metrics"
      [] source = "social" -> Str(count) \o " social posts"
      [] source = "technicals" -> Str(count) \o " technical signals"
      [] OTHER -> Str(count) \o " items from " \o source

----------------------------------------------------------------------------
(* Python string comparison and int() on the characters the model uses *)

Ord(c) ==
    CASE c = "-" -> 45 [] c = "/" -> 47
      [] c = "0" -> 48 [] c = "1" -> 49 [] c = "2" -> 50 [] c = "3" -> 51
      [] c = "4" -> 52 [] c = "5" -> 53 [] c = "6" -> 54 [] c = "7" -> 55
      [] c = "8" -> 56 [] c = "9" -> 57
      [] c = "A" -> 65 [] c = "K" -> 75 [] c = "Q" -> 81
      [] c = "n" -> 110 [] c = "a" -> 97

IsDigit(c) == Ord(c) >= 48 /\ Ord(c) <= 57

RECURSIVE StrLess(_, _)
StrLess(a, b) ==
    IF Len(b) = 0 THEN FALSE
    ELSE IF Len(a) = 0 THEN TRUE
    ELSE IF Head(a) # Head(b) THEN Ord(Head(a)) < Ord(Head(b))
    ELSE StrLess(SubSeq(a, 2, Len(a)), SubSeq(b, 2, Len(b)))

RECURSIVE AllDigits(_)
AllDigits(s) ==
    Len(s) = 0 \/ (IsDigit(Head(s)) /\ AllDigits(SubSeq(s, 2, Len(s))))

RECURSIVE DigitsValue(_, _)
DigitsValue(s, acc) ==
    IF Len(s) = 0 THEN acc
    ELSE DigitsValue(SubSeq(s, 2, Len(s)), 10 * acc + (Ord(Head(s)) - 48))

\* int(s) for a string of decimal digits with or without a minus sign; None
\* stands for ValueError.  (The plus sign, blanks and underscores, which
\* int() also accepts, are not in the alphabet.)
ParseInt(s) ==
    IF Len(s) > 0 /\ AllDigits(s) THEN Some(DigitsValue(s, 0))
    ELSE IF Len(s) > 1 /\ SubSeq(s, 1, 1) = "-" /\ AllDigits(SubSeq(s, 2, Len(s)))
    THEN Some(0 - DigitsValue(SubSeq(s, 2, Len(s)), 0))
    ELSE None

\* s.replace(old, "")
RECURSIVE Remove(_, _)
Remove(s, old) ==
    IF Len(s) < Len(old) THEN s
    ELSE IF SubSeq(s, 1, Len(old)) = old
         THEN Remove(SubSeq(s, Len(old) + 1, Len(s)), old)
         ELSE SubSeq(s, 1, 1) \o Remove(SubSeq(s, 2, Len(s)), old)

----------------------------------------------------------------------------
(* gather_fundamentals.py:192-260, _extract_concept_data *)

EmptyDict == << >>

\* the form filter letting current reports through as well
FILING_FORMS_with_8K == {"10-K", "10-Q", "10-K/A", "10-Q/A", "8-K"}

FILING_FORMS == {"10-K", "10-Q", "10-K/A", "10-Q/A"}

UNIT_TYPES == <<"USD", "USD/shares", "shares", "pure">>

\* gather_fundamentals.py:223-246: what one entry of a series gives: None
\* when a filter drops it, its Observation otherwise.  A JSON number under
\* "end" is carried in the field end_int: zero is falsy and drops the entry,
\* any other number makes end_date[:4] raise TypeError, which the except
\* clause (ValueError, IndexError) does not catch.
Observation(entry, cutoff_year) ==
    LET form == Get(entry, "form", "")
    IN  IF form \notin FILING_FORMS THEN Returned(None, << >>)
        ELSE IF "end_int" \in DOMAIN entry
        THEN IF entry.end_int = 0 THEN Returned(None, << >>)
             ELSE Raised("'int' object is not subscriptable", << >>)
        ELSE
          LET end_date == Get(entry, "end", "")
              end_year == ParseInt(Slice(end_date, 4))
          IN  IF end_date = "" THEN Returned(None, << >>)
              ELSE IF end_year = None THEN Returned(None, << >>)
              ELSE IF end_year[1] < cutoff_year THEN Returned(None, << >>)
              ELSE Returned(Some(
                     [value |-> IF "val" \in DOMAIN entry THEN Some(entry.val) ELSE None,
                      end_date |-> end_date,
                      form |-> form,
                      filed |-> Get(entry, "filed", ""),
                      fiscal_year |-> IF "fy" \in DOMAIN entry THEN Some(entry.fy) ELSE None,
                      fiscal_period |-> Get(entry, "fp", "")]), << >>)

\* gather_fundamentals.py:221-246: the loop over the entries of one series;
\* the first entry that raises ends it
RECURSIVE FilterEntries(_, _)
FilterEntries(entries, cutoff_year) ==
    IF Len(entries) = 0 THEN Returned(<< >>, << >>)
    ELSE LET first == Observation(Head(entries), cutoff_year)
         IN  IF first.raised THEN first
             ELSE LET rest == FilterEntries(Tail(entries), cutoff_year)
                  IN  IF rest.raised THEN rest
                      ELSE Returned(first.value \o rest.value, << >>)

\* gather_fundamentals.py:250: list.sort is stable
RECURSIVE InsertByEndDate(_, _)
InsertByEndDate(sorted, r) ==
    IF Len(sorted) = 0 THEN <<r>>
    ELSE IF StrLess(r.end_date, Head(sorted).end_date) THEN <<r>> \o sorted
    ELSE <<Head(sorted)>> \o InsertByEndDate(Tail(sorted), r)

\* the results left in the order the payload lists them
SortByEndDate_unsorted(results) == results

RECURSIVE SortByEndDate(_)
SortByEndDate(results) ==
    IF Len(results) = 0 THEN << >>
    ELSE InsertByEndDate(SortByEndDate(SubSeq(results, 1, Len(results) - 1)),
                         results[Len(results)])

\* the key without the amendment marker removed
DedupKey_with_amendment(r) == <<r.end_date, r.form>>

\* gather_fundamentals.py:254
DedupKey(r) == <<r.end_date, Remove(r.form, "/A")>>

\* gather_fundamentals.py:251-257
RECURSIVE Dedup(_, _, _)
Dedup(results, seen, deduped) ==
    IF Len(results) = 0 THEN deduped
    ELSE LET r == Head(results)
             key == DedupKey(r)
         IN  IF key \notin seen
             THEN Dedup(Tail(results), seen \cup {key}, Append(deduped, r))
             ELSE Dedup(Tail(results), seen, deduped)

\* the loops giving up after the first alias
RECURSIVE ExtractFrom_first_alias_only(_, _, _, _, _)
ExtractFrom_first_alias_only(us_gaap, concept_names, cutoff_year, a, u) ==
    IF a > Min(1, Len(concept_names)) THEN Returned(<< >>, << >>)
    ELSE IF u > Len(UNIT_TYPES)
    THEN ExtractFrom_first_alias_only(us_gaap, concept_names, cutoff_year, a + 1, 1)
    ELSE
      LET concept == Get(us_gaap, concept_names[a], EmptyDict)
          units == Get(concept, "units", EmptyDict)
          entries == Get(units, UNIT_TYPES[u], << >>)
          results == FilterEntries(entries, cutoff_year)
      IN  IF Len(entries) = 0
          THEN ExtractFrom_first_alias_only(us_gaap, concept_names, cutoff_year, a, u + 1)
          ELSE IF results.raised THEN results
          ELSE IF Len(results.value) = 0
          THEN ExtractFrom_first_alias_only(us_gaap, concept_names, cutoff_year, a, u + 1)
          ELSE Returned(Dedup(SortByEndDate(results.value), {}, << >>), << >>)

\* the loops returning at the first series that reports entries, whatever
\* the filters leave of it
RECURSIVE ExtractFrom_first_reported(_, _, _, _, _)
ExtractFrom_first_reported(us_gaap, concept_names, cutoff_year, a, u) ==
    IF a > Len(concept_names) THEN Returned(<< >>, << >>)
    ELSE IF u > Len(UNIT_TYPES)
    THEN ExtractFrom_first_reported(us_gaap, concept_names, cutoff_year, a + 1, 1)
    ELSE
      LET concept == Get(us_gaap, concept_names[a], EmptyDict)
          units == Get(concept, "units", EmptyDict)
          entries == Get(units, UNIT_TYPES[u], << >>)
          results == FilterEntries(entries, cutoff_year)
      IN  IF Len(entries) = 0
          THEN ExtractFrom_first_reported(us_gaap, concept_names, cutoff_year, a, u + 1)
          ELSE IF results.raised THEN results
          ELSE Returned(Dedup(SortByEndDate(results.value), {}, << >>), << >>)

\* the loops nested the other way round: unit kind by unit kind, and within
\* a unit kind alias by alias
RECURSIVE ExtractFrom_unit_major(_, _, _, _, _)
ExtractFrom_unit_major(us_gaap, concept_names, cutoff_year, a, u) ==
    IF u > Len(UNIT_TYPES) THEN Returned(<< >>, << >>)
    ELSE IF a > Len(concept_names)
    THEN ExtractFrom_unit_major(us_gaap, concept_names, cutoff_year, 1, u + 1)
    ELSE
      LET concept == Get(us_gaap, concept_names[a], EmptyDict)
          units == Get(concept, "units", EmptyDict)
          entries == Get(units, UNIT_TYPES[u], << >>)
          results == FilterEntries(entries, cutoff_year)
      IN  IF Len(entries) = 0
          THEN ExtractFrom_unit_major(us_gaap, concept_names, cutoff_year, a + 1, u)
          ELSE IF results.raised THEN results
          ELSE IF Len(results.value) = 0
          THEN ExtractFrom_unit_major(us_gaap, concept_names, cutoff_year, a + 1, u)
          ELSE Returned(Dedup(SortByEndDate(results.value), {}, << >>), << >>)

\* gather_fundamentals.py:207-260: the loops over aliases and unit kinds,
\* from alias number a and unit number u on
RECURSIVE ExtractFrom(_, _, _, _, _)
ExtractFrom(us_gaap, concept_names, cutoff_year, a, u) ==
    IF a > Len(concept_names) THEN Returned(<< >>, << >>)
    ELSE IF u > Len(UNIT_TYPES)
    THEN ExtractFrom(us_gaap, concept_names, cutoff_year, a + 1, 1)
    ELSE
      LET concept == Get(us_gaap, concept_names[a], EmptyDict)
          units == Get(concept, "units", EmptyDict)
          entries == Get(units, UNIT_TYPES[u], << >>)
          results == FilterEntries(entries, cutoff_year)
      IN  IF Len(entries) = 0
          THEN ExtractFrom(us_gaap, concept_names, cutoff_year, a, u + 1)
          ELSE IF results.raised THEN results
          ELSE IF Len(results.value) = 0
          THEN ExtractFrom(us_gaap, concept_names, cutoff_year, a, u + 1)
          ELSE Returned(Dedup(SortByEndDate(results.value), {}, << >>), << >>)

_extract_concept_data(facts, concept_names, years, now_year) ==
    LET us_gaap == Get(Get(facts, "facts", EmptyDict), "us-gaap", EmptyDict)
    IN  ExtractFrom(us_gaap, concept_names, now_year - years, 1, 1)

----------------------------------------------------------------------------
(* gather_fundamentals.py:46-124 and 263-301, extract_financials *)

INCOME_CONCEPTS ==
    [revenue |-> <<"RevenueFromContractWithCustomerExcludingAssessedTax",
                   "RevenueFromContractWithCustomerIncludingAssessedTax",
                   "Revenues", "SalesRevenueNet", "SalesRevenueGoodsNet">>,
     cost_of_revenue |-> <<"CostOfGoodsAndServicesSold", "CostOfRevenue",
                           "CostOfGoodsSold">>,
     gross_profit |-> <<"GrossProfit">>,
     operating_income |-> <<"OperatingIncomeLoss">>,
     net_income |-> <<"NetIncomeLoss", "ProfitLoss">>,
     eps_basic |-> <<"EarningsPerShareBasic">>,
     eps_diluted |-> <<"EarningsPerShareDiluted">>]

BALANCE_SHEET_CONCEPTS ==
    [total_assets |-> <<"Assets">>,
     total_liabilities |-> <<"Liabilities">>,
     stockholders_equity |->
         <<"StockholdersEquity",
           "StockholdersEquityIncludingPortionAttributableToNoncontrollingInterest">>,
     cash |-> <<"CashAndCashEquivalentsAtCarryingValue",
                "CashCashEquivalentsAndShortTermInvestments", "Cash">>,
     long_term_debt |-> <<"LongTermDebt", "LongTermDebtNoncurrent",
                          "LongTermDebtAndCapitalLeaseObligations">>,
     short_term_debt |-> <<"ShortTermBorrowings", "DebtCurrent">>,
     current_assets |-> <<"AssetsCurrent">>,
     current_liabilities |-> <<"LiabilitiesCurrent">>,
     shares_outstanding |-> <<"CommonStockSharesOutstanding",
                              "EntityCommonStockSharesOutstanding">>]

CASH_FLOW_CONCEPTS ==
    [operating_cash_flow |-> <<"NetCashProvidedByOperatingActivities">>,
     capex |-> <<"PaymentsToAcquirePropertyPlantAndEquipment",
                 "PaymentsToAcquireProductiveAssets">>,
     dividends_paid |-> <<"PaymentsOfDividends", "PaymentsOfDividendsCommonStock">>]

\* every metric entered in its category, an empty sequence included
ExtractCategory_keeps_empty(facts, concepts, years, now_year) ==
    LET data == [m \in DOMAIN concepts |->
                    _extract_concept_data(facts, concepts[m], years, now_year)]
    IN  IF \E m \in DOMAIN concepts : data[m].raised
        THEN data[CHOOSE m \in DOMAIN concepts : data[m].raised]
        ELSE Returned([m \in DOMAIN concepts |-> data[m].value], << >>)

\* gather_fundamentals.py:284-299: one of the three loops over a concept
\* table; a fault of an extraction leaves the loop
ExtractCategory(facts, concepts, years, now_year) ==
    LET data == [m \in DOMAIN concepts |->
                    _extract_concept_data(facts, concepts[m], years, now_year)]
    IN  IF \E m \in DOMAIN concepts : data[m].raised
        THEN data[CHOOSE m \in DOMAIN concepts : data[m].raised]
        ELSE Returned([m \in {n \in DOMAIN concepts : data[n].value # << >>} |->
                          data[m].value], << >>)

\* gather_fundamentals.py:263-301; both None and {} are falsy
extract_financials(facts, years, now_year) ==
    IF facts = None \/ facts = EmptyDict
    THEN Returned([income |-> EmptyDict, balance_sheet |-> EmptyDict,
                   cash_flow |-> EmptyDict], << >>)
    ELSE
      LET income == ExtractCategory(facts, INCOME_CONCEPTS, years, now_year)
          balance_sheet == ExtractCategory(facts, BALANCE_SHEET_CONCEPTS, years, now_year)
          cash_flow == ExtractCategory(facts, CASH_FLOW_CONCEPTS, years, now_year)
      IN  IF income.raised THEN income
          ELSE IF balance_sheet.raised THEN balance_sheet
          ELSE IF cash_flow.raised THEN cash_flow
          ELSE Returned([income |-> income.value,
                         balance_sheet |-> balance_sheet.value,
                         cash_flow |-> cash_flow.value], << >>)

----------------------------------------------------------------------------
(* gather_fundamentals.py:391-456: number formatting, latest value, trend *)

Abs(n) == IF n < 0 THEN 0 - n ELSE n

RECURSIVE Pow10(_)
Pow10(k) == IF k = 0 THEN 1 ELSE 10 * Pow10(k - 1)

\* the quotient n / d of two floats holding the integers n > 0 and d > 0,
\* brought to a significand between 1 and 2: the L with
\* 2^L <= n / d < 2^(L+1), and n and d scaled so that d <= n < 2 * d
RECURSIVE Normalised(_, _, _)
Normalised(n, d, L) ==
    IF n \div 2 >= d THEN Normalised(n, 2 * d, L + 1)
    ELSE IF n < d THEN Normalised(2 * n, d, L - 1)
    ELSE [n |-> n, d |-> d, L |-> L]

\* (a * 2^k) % m, for 0 <= a < m and k >= 0: half of the doublings, then
\* the other half
RECURSIVE ShiftMod(_, _, _)
ShiftMod(a, k, m) ==
    IF k = 0 \/ a = 0 THEN a
    ELSE IF k = 1 THEN (2 * a) % m
    ELSE LET half == ShiftMod(a, k \div 2, m)
         IN  IF half = 0 THEN 0 ELSE ShiftMod(half, k - k \div 2, m)

\* the float n / d holds a significand of 53 bits, the nearest to the exact
\* quotient: the side of the exact quotient on which it falls, 1 above,
\* -1 below, 0 when the quotient is held exactly; n >= 0, d > 0
DivisionError(n, d) ==
    IF n = 0 THEN 0
    ELSE LET r == ShiftMod(n % d, 52 - Normalised(n, d, 0).L, d)
         IN  IF r = 0 THEN 0 ELSE IF 2 * r > d THEN 1 ELSE -1

\* the float n / d * 100 is rounded twice, after the division and after the
\* multiplication: the side of the exact 100 * n / d on which it falls;
\* n >= 0 and 0 < d < 2^22
PercentError(n, d) ==
    IF n = 0 THEN 0
    ELSE LET norm == Normalised(n, d, 0)
             r1 == ShiftMod(n % d, 52 - norm.L, d)
             c1 == IF 2 * r1 > d THEN 1 ELSE 0
             \* the low 8 bits of the significand of n / d
             low == (ShiftMod(n % (256 * d), 52 - norm.L, 256 * d) \div d + c1) % 256
             \* the product has 7 bits more than a significand holds when the
             \* significand of n / d is 1.28 or more, and 6 otherwise
             m == IF 25 * norm.n >= 32 * norm.d THEN 128 ELSE 64
             p == (100 * low) % (2 * m)
             r2 == p % m
             c2 == IF 2 * r2 > m THEN 1
                   ELSE IF 2 * r2 < m THEN 0
                   ELSE IF p >= m THEN 1 ELSE 0
             diff == d * (100 * c1 - r2 + c2 * m) - 100 * r1
         IN  IF diff > 0 THEN 1 ELSE IF diff < 0 THEN -1 ELSE 0

\* n / d rounded to the nearest integer as a format specification rounds
\* the float that stands for it, for n >= 0 and d > 0: off a tie the float
\* and the exact quotient round alike; on a tie the float lies above the
\* tie (err = 1), below it (err = -1), or is the tie itself (err = 0) and
\* goes to the even neighbour
RoundDiv(n, d, err) ==
    LET q == n \div d
        r == n % d
    IN  IF 2 * r > d THEN q + 1
        ELSE IF 2 * r < d THEN q
        ELSE IF err > 0 THEN q + 1
        ELSE IF err < 0 THEN q
        ELSE IF q % 2 = 0 THEN q ELSE q + 1

RECURSIVE ZeroPad(_, _)
ZeroPad(str, width) == IF Len(str) >= width THEN str ELSE ZeroPad("0" \o str, width)

\* the digits of scaled / 10^k with k decimal places
Decimal(scaled, k) ==
    Str(scaled \div Pow10(k)) \o "." \o ZeroPad(Str(scaled % Pow10(k)), k)

\* the format specification .kf applied to the float n / d, for any n,
\* d # 0 and k >= 1.  The sign is that of the quotient, also when it rounds
\* to zero, and that of the zero 0 / d, which is negative for d < 0.
Fixed(n, d, k) ==
    LET sign == IF (n < 0 /\ d > 0) \/ (n >= 0 /\ d < 0) THEN "-" ELSE ""
    IN  sign \o Decimal(RoundDiv(Abs(n) * Pow10(k), Abs(d),
                                 DivisionError(Abs(n), Abs(d))), k)

\* the format specification .kf applied to the float n / d * 100, for any
\* n, d # 0 and k >= 1, with the same sign
FixedPercent(n, d, k) ==
    LET sign == IF (n < 0 /\ d > 0) \/ (n >= 0 /\ d < 0) THEN "-" ELSE ""
    IN  sign \o Decimal(RoundDiv(Abs(n) * 100 * Pow10(k), Abs(d),
                                 PercentError(Abs(n), Abs(d))), k)

\* the format specification .1f applied to the float v / 10^e, for v >= 0
\* and e >= 1
FixedScaled(v, e) ==
    Decimal(RoundDiv(v, Pow10(e - 1), DivisionError(v, Pow10(e))), 1)

\* gather_fundamentals.py:391-416; value is None or Some(integer).  The
\* first guard is v >= 1e12 written with numbers below 2^31.
_format_number(value, prefix, suffix) ==
    IF value = None THEN "N/A"
    ELSE
      LET negative == value[1] < 0
          v == Abs(value[1])
          formatted ==
              IF v \div 1000000 >= 1000000 THEN FixedScaled(v, 12) \o "T"
              ELSE IF v >= 1000000000 THEN FixedScaled(v, 9) \o "B"
              ELSE IF v >= 1000000 THEN FixedScaled(v, 6) \o "M"
              ELSE IF v >= 1000 THEN FixedScaled(v, 3) \o "K"
              ELSE Str(v) \o ".00"
          sign == IF negative THEN "-" ELSE ""
      IN  sign \o prefix \o formatted \o suffix

\* gather_fundamentals.py:424, 435: the data points of one form, an
\* amendment counting as the form it amends
OfForm(data_points, form_filter) ==
    SelectSeq(data_points, LAMBDA d : Remove(d.form, "/A") = form_filter)

\* the last data point whatever its form
_get_latest_value_any_form(data_points, form_filter) ==
    IF Len(data_points) = 0 THEN None
    ELSE Some(data_points[Len(data_points)])

\* gather_fundamentals.py:419-430
_get_latest_value(data_points, form_filter) ==
    IF Len(data_points) = 0 THEN None
    ELSE LET filtered == OfForm(data_points, form_filter)
         IN  IF Len(filtered) > 0 THEN Some(filtered[Len(filtered)])
             ELSE Some(data_points[Len(data_points)])

\* gather_fundamentals.py:452-456: the text of a trend; UP, DOWN and FLAT
\* stand for the three pictographs of the source, which are not ASCII
TrendText(prev_val, curr_val) ==
    LET diff == curr_val - prev_val
        arrow == IF diff > 0 THEN "UP" ELSE IF diff < 0 THEN "DOWN" ELSE "FLAT"
        sign == IF diff < 0 THEN "-" ELSE "+"
    IN  " " \o arrow \o " " \o sign \o FixedPercent(Abs(diff), Abs(prev_val), 1)
            \o "% YoY"

\* the change between the two earliest data points of the form
_format_trend_earliest(data_points, form_filter) ==
    LET filtered == OfForm(data_points, form_filter)
    IN  IF Len(filtered) < 2 THEN ""
        ELSE LET prev_val == filtered[1].value
                 curr_val == filtered[2].value
             IN  IF prev_val = None \/ curr_val = None THEN ""
                 ELSE IF prev_val[1] = 0 THEN ""
                 ELSE TrendText(prev_val[1], curr_val[1])

\* gather_fundamentals.py:433-456
_format_trend(data_points, form_filter) ==
    LET filtered == OfForm(data_points, form_filter)
    IN  IF Len(filtered) < 2 THEN ""
        ELSE LET prev_val == filtered[Len(filtered) - 1].value
                 curr_val == filtered[Len(filtered)].value
             IN  IF prev_val = None \/ curr_val = None THEN ""
                 ELSE IF prev_val[1] = 0 THEN ""
                 ELSE TrendText(prev_val[1], curr_val[1])

----------------------------------------------------------------------------
(* gather_fundamentals.py:459-737, format_fundamentals_markdown *)

\* the truth value Python gives a value that is None or a number
Truthy(value) == value # None /\ value[1] # 0

\* float(None)
FloatOfNone == "float() argument must be a string or a real number, not 'NoneType'"

\* f"FY{latest.get('fiscal_year', '?')}"
FiscalYearText(d) ==
    "FY" \o (IF d.fiscal_year = None THEN "None" ELSE Str(d.fiscal_year[1]))

\* gather_fundamentals.py:525-534, 623-632, 671-680: the line of one metric,
\* none when the document has no data for it
MetricLine(data, label, prefix) ==
    IF Len(data) = 0 THEN << >>
    ELSE LET latest == _get_latest_value(data, "10-K")[1]
         IN  << "- **" \o label \o "**: " \o _format_number(latest.value, prefix, "")
                 \o " (" \o FiscalYearText(latest) \o ")" \o _format_trend(data, "10-K") >>

RECURSIVE MetricLines(_, _)
MetricLines(category, rows) ==
    IF Len(rows) = 0 THEN << >>
    ELSE MetricLine(Get(category, rows[1][1], << >>), rows[1][2], rows[1][3])
             \o MetricLines(category, Tail(rows))

\* gather_fundamentals.py:547-560: one margin
MarginPart(name, data, rev_val) ==
    LET latest == _get_latest_value(data, "10-K")
    IN  IF latest # None /\ Truthy(latest[1].value)
        THEN << name \o ": " \o FixedPercent(latest[1].value[1], rev_val, 1) \o "%" >>
        ELSE << >>

\* the margins computed whatever the sign of the revenue
Margins_any_revenue(income) ==
    LET rev_latest == _get_latest_value(Get(income, "revenue", << >>), "10-K")
    IN  IF rev_latest # None /\ Truthy(rev_latest[1].value)
        THEN LET rev_val == rev_latest[1].value[1]
             IN  MarginPart("Gross", Get(income, "gross_profit", << >>), rev_val)
                 \o MarginPart("Operating", Get(income, "operating_income", << >>), rev_val)
                 \o MarginPart("Net", Get(income, "net_income", << >>), rev_val)
        ELSE << >>

\* gather_fundamentals.py:536-560
Margins(income) ==
    LET rev_latest == _get_latest_value(Get(income, "revenue", << >>), "10-K")
    IN  IF rev_latest # None /\ Truthy(rev_latest[1].value) /\ rev_latest[1].value[1] > 0
        THEN LET rev_val == rev_latest[1].value[1]
             IN  MarginPart("Gross", Get(income, "gross_profit", << >>), rev_val)
                 \o MarginPart("Operating", Get(income, "operating_income", << >>), rev_val)
                 \o MarginPart("Net", Get(income, "net_income", << >>), rev_val)
        ELSE << >>

\* gather_fundamentals.py:570-577: the entry kept for each fiscal year
RECURSIVE SeenYears(_, _)
SeenYears(annual_data, seen_years) ==
    IF Len(annual_data) = 0 THEN seen_years
    ELSE LET d == Head(annual_data)
         IN  IF d.fiscal_year = None THEN SeenYears(Tail(annual_data), seen_years)
             ELSE IF d.fiscal_year[1] \notin DOMAIN seen_years \/ d.fiscal_period = "FY"
             THEN SeenYears(Tail(annual_data),
                            [fy \in DOMAIN seen_years \cup {d.fiscal_year[1]} |->
                                IF fy = d.fiscal_year[1] THEN d ELSE seen_years[fy]])
             ELSE SeenYears(Tail(annual_data), seen_years)

\* gather_fundamentals.py:578: the kept entries sorted by fiscal year
RECURSIVE SortedByYear(_)
SortedByYear(seen_years) ==
    IF DOMAIN seen_years = {} THEN << >>
    ELSE LET last == CHOOSE fy \in DOMAIN seen_years :
                         \A other \in DOMAIN seen_years : other <= fy
         IN  Append(SortedByYear([fy \in DOMAIN seen_years \ {last} |-> seen_years[fy]]),
                    seen_years[last])

\* gather_fundamentals.py:593-603: the value of the first annual data point
\* with the period end of the row; "-" stands for the dash of the source,
\* which is not ASCII
MatchingValue(data, end_date) ==
    LET hits == SelectSeq(data, LAMBDA d : d.end_date = end_date
                                           /\ Remove(d.form, "/A") = "10-K")
    IN  IF Len(hits) = 0 THEN "-" ELSE _format_number(hits[1].value, "$", "")

RECURSIVE TableRows(_, _)
TableRows(annual_data, income) ==
    IF Len(annual_data) = 0 THEN << >>
    ELSE LET rev_entry == Head(annual_data)
         IN  << "| " \o FiscalYearText(rev_entry)
                 \o " | " \o _format_number(rev_entry.value, "$", "")
                 \o " | " \o MatchingValue(Get(income, "net_income", << >>), rev_entry.end_date)
                 \o " | " \o MatchingValue(Get(income, "eps_diluted", << >>), rev_entry.end_date)
                 \o " |" >>
             \o TableRows(Tail(annual_data), income)

\* gather_fundamentals.py:567-606
AnnualTable(income) ==
    LET annual_data ==
            SortedByYear(SeenYears(OfForm(Get(income, "revenue", << >>), "10-K"), << >>))
        n == Len(annual_data)
    IN  IF n >= 2
        THEN << "### Annual Revenue History", "",
                "| Fiscal Year | Revenue | Net Income | EPS |",
                "|-------------|---------|------------|-----|" >>
             \o TableRows(SubSeq(annual_data, IF n > 5 THEN n - 4 ELSE 1, n), income)
             \o << "" >>
        ELSE << >>

\* gather_fundamentals.py:513-606
IncomeSection(income) ==
    IF DOMAIN income = {} THEN << >>
    ELSE << "## Income Statement (from SEC filings)", "" >>
         \o MetricLines(income, << <<"revenue", "Revenue", "$">>,
                                   <<"gross_profit", "Gross Profit", "$">>,
                                   <<"operating_income", "Operating Income", "$">>,
                                   <<"net_income", "Net Income", "$">>,
                                   <<"eps_diluted", "EPS (Diluted)", "$">> >>)
         \o (IF Len(Margins(income)) > 0
             THEN << "- **Margins**: " \o Join(Margins(income), " | ") >> ELSE << >>)
         \o << "" >>
         \o AnnualTable(income)

\* gather_fundamentals.py:634-654: the key ratios, or the fault of float()
\* on a None value
KeyRatios(balance) ==
    LET latest(metric) == _get_latest_value(Get(balance, metric, << >>), "10-K")
        liabilities == latest("total_liabilities")
        equity == latest("stockholders_equity")
        cash == latest("cash")
        lt_debt == latest("long_term_debt")
        curr_assets == latest("current_assets")
        curr_liab == latest("current_liabilities")
        de == IF equity # None /\ liabilities # None /\ Truthy(equity[1].value)
              THEN IF liabilities[1].value = None THEN Raised(FloatOfNone, << >>)
                   ELSE Returned(<< "D/E: " \o Fixed(liabilities[1].value[1],
                                                     equity[1].value[1], 2) >>, << >>)
              ELSE Returned(<< >>, << >>)
        current == IF curr_assets # None /\ curr_liab # None /\ Truthy(curr_liab[1].value)
                   THEN IF curr_assets[1].value = None THEN Raised(FloatOfNone, << >>)
                        ELSE Returned(<< "Current: " \o Fixed(curr_assets[1].value[1],
                                                              curr_liab[1].value[1], 2) >>,
                                      << >>)
                   ELSE Returned(<< >>, << >>)
        net_debt == IF cash # None /\ lt_debt # None /\ Truthy(lt_debt[1].value)
                    THEN IF cash[1].value = None THEN Raised(FloatOfNone, << >>)
                         ELSE Returned(<< "Net Debt: " \o _format_number(
                                   Some(lt_debt[1].value[1] - cash[1].value[1]), "$", "") >>,
                                   << >>)
                    ELSE Returned(<< >>, << >>)
    IN  IF de.raised THEN de
        ELSE IF current.raised THEN current
        ELSE IF net_debt.raised THEN net_debt
        ELSE Returned(de.value \o current.value \o net_debt.value, << >>)

\* gather_fundamentals.py:608-661
BalanceSection(balance) ==
    IF DOMAIN balance = {} THEN Returned(<< >>, << >>)
    ELSE LET ratios == KeyRatios(balance)
         IN  IF ratios.raised THEN ratios
             ELSE Returned(
                    << "## Balance Sheet (from SEC filings)", "" >>
                    \o MetricLines(balance,
                         << <<"total_assets", "Total Assets", "$">>,
                            <<"total_liabilities", "Total Liabilities", "$">>,
                            <<"stockholders_equity", "Stockholders' Equity", "$">>,
                            <<"cash", "Cash & Equivalents", "$">>,
                            <<"long_term_debt", "Long-Term Debt", "$">>,
                            <<"current_assets", "Current Assets", "$">>,
                            <<"current_liabilities", "Current Liabilities", "$">>,
                            <<"shares_outstanding", "Shares Outstanding", "">> >>)
                    \o (IF Len(ratios.value) > 0
                        THEN << "- **Key Ratios**: " \o Join(ratios.value, " | ") >>
                        ELSE << >>)
                    \o << "" >>, << >>)

\* the free cash flow with the capital expenditure subtracted as reported
FreeCashFlow_signed(cash_flow) ==
    LET ocf == _get_latest_value(Get(cash_flow, "operating_cash_flow", << >>), "10-K")
        capex == _get_latest_value(Get(cash_flow, "capex", << >>), "10-K")
    IN  IF ocf # None /\ capex # None /\ ocf[1].value # None /\ capex[1].value # None
        THEN << "- **Free Cash Flow**: "
                  \o _format_number(Some(ocf[1].value[1] - capex[1].value[1]), "$", "") >>
        ELSE << >>

\* gather_fundamentals.py:682-687
FreeCashFlow(cash_flow) ==
    LET ocf == _get_latest_value(Get(cash_flow, "operating_cash_flow", << >>), "10-K")
        capex == _get_latest_value(Get(cash_flow, "capex", << >>), "10-K")
    IN  IF ocf # None /\ capex # None /\ ocf[1].value # None /\ capex[1].value # None
        THEN << "- **Free Cash Flow**: "
                  \o _format_number(Some(ocf[1].value[1] - Abs(capex[1].value[1])), "$", "") >>
        ELSE << >>

\* gather_fundamentals.py:663-689
CashFlowSection(cash_flow) ==
    IF DOMAIN cash_flow = {} THEN << >>
    ELSE << "## Cash Flow (from SEC filings)", "" >>
         \o MetricLines(cash_flow,
              << <<"operating_cash_flow", "Operating Cash Flow", "$">>,
                 <<"capex", "Capital Expenditures", "$">>,
                 <<"dividends_paid", "Dividends Paid", "$">> >>)
         \o FreeCashFlow(cash_flow)
         \o << "" >>

\* A float of the supplementary data is None or Some([n |-> n, d |-> d]),
\* the float n / d with d > 0; an integer is None or Some(integer); a text
\* is a string.

\* the truth value Python gives a float that is None or Some([n, d])
TruthyFloat(value) == value # None /\ value[1].n # 0

\* gather_fundamentals.py:472-511: the company overview; "-" stands for the
\* dash of the source, which is not ASCII
CompanyOverview(info) ==
    IF DOMAIN info = {} THEN << >>
    ELSE
      LET text(key) == Get(info, key, "")
          float(key) == Get(info, key, None)
          line(key, label, k, suffix) ==
              IF TruthyFloat(float(key))
              THEN << "- **" \o label \o "**: "
                        \o (IF suffix = "%"
                            THEN FixedPercent(float(key)[1].n, float(key)[1].d, k)
                            ELSE Fixed(float(key)[1].n, float(key)[1].d, k))
                        \o suffix >>
              ELSE << >>
          number(key, label) ==
              IF Truthy(Get(info, key, None))
              THEN << "- **" \o label \o "**: " \o _format_number(info[key], "$", "") >>
              ELSE << >>
          parts == (IF text("sector") # "" THEN << text("sector") >> ELSE << >>)
                   \o (IF text("industry") # "" THEN << text("industry") >> ELSE << >>)
          high == float("52_week_high")
          low == float("52_week_low")
          desc == text("description")
      IN  << "## Company Overview", "" >>
          \o (IF text("long_name") # "" THEN << "**" \o text("long_name") \o "**" >>
              ELSE << >>)
          \o (IF Len(parts) > 0 THEN << "*" \o Join(parts, " - ") \o "*" >> ELSE << >>)
          \o << "" >>
          \o number("market_cap", "Market Cap")
          \o number("enterprise_value", "Enterprise Value")
          \o line("trailing_pe", "P/E (Trailing)", 1, "")
          \o line("forward_pe", "P/E (Forward)", 1, "")
          \o line("price_to_book", "P/B", 2, "")
          \o line("dividend_yield", "Dividend Yield", 2, "%")
          \o line("beta", "Beta", 2, "")
          \o (IF TruthyFloat(high) /\ TruthyFloat(low)
              THEN << "- **52-Week Range**: $" \o Fixed(low[1].n, low[1].d, 2)
                        \o " - $" \o Fixed(high[1].n, high[1].d, 2) >>
              ELSE << >>)
          \o << "" >>
          \o (IF desc # ""
              THEN << "> " \o (IF Len(desc) > 500 THEN SubSeq(desc, 1, 500) \o "..."
                               ELSE desc),
                      "" >>
              ELSE << >>)

\* gather_fundamentals.py:697-702: the lines of the recommendations
RECURSIVE RecommendationLines(_)
RecommendationLines(recs) ==
    IF Len(recs) = 0 THEN << >>
    ELSE LET rec == Head(recs)
             firm == Get(rec, "Firm", Get(rec, "firm", ""))
             grade == Get(rec, "To Grade", Get(rec, "toGrade", ""))
             action == Get(rec, "Action", Get(rec, "action", ""))
         IN  (IF firm # "" /\ grade # ""
              THEN << "- **" \o firm \o "**: " \o grade
                        \o (IF action # "" THEN " (" \o action \o ")" ELSE "") >>
              ELSE << >>)
             \o RecommendationLines(Tail(recs))

\* gather_fundamentals.py:712-724: the rows of the earnings table; an
\* estimate, actual or surprise is a float, None, or not a key of the entry
RECURSIVE EarningsRows(_)
EarningsRows(earnings) ==
    IF Len(earnings) = 0 THEN << >>
    ELSE LET e == Head(earnings)
             quarter == Get(e, "Quarter End", Get(e, "quarter", ""))
             shown(key, other, prefix, k, suffix) ==
                 IF key \notin DOMAIN e /\ other \notin DOMAIN e THEN ""
                 ELSE LET value == Get(e, key, Get(e, other, None))
                      IN  IF value = None THEN "None"
                          ELSE prefix \o Fixed(value[1].n, value[1].d, k) \o suffix
         IN  << "| " \o quarter
                 \o " | " \o shown("EPS Estimate", "epsEstimate", "$", 2, "")
                 \o " | " \o shown("EPS Actual", "epsActual", "$", 2, "")
                 \o " | " \o shown("Surprise(%)", "surprisePercent", "", 1, "%")
                 \o " |" >>
             \o EarningsRows(Tail(earnings))

\* gather_fundamentals.py:691-725: the blocks after the filing data
SupplementaryBlocks(supplementary) ==
    LET recs == Get(supplementary, "recommendations", << >>)
        earnings == Get(supplementary, "earnings_history", << >>)
        last(list, n) == SubSeq(list, IF Len(list) > n THEN Len(list) - n + 1 ELSE 1,
                                Len(list))
    IN  (IF Len(recs) > 0
         THEN << "## Analyst Recommendations", "" >>
              \o RecommendationLines(last(recs, 5)) \o << "" >>
         ELSE << >>)
        \o (IF Len(earnings) > 0
            THEN << "## Earnings History", "",
                    "| Quarter | EPS Estimate | EPS Actual | Surprise |",
                    "|---------|-------------|------------|----------|" >>
                 \o EarningsRows(last(earnings, 8)) \o << "" >>
            ELSE << >>)

\* gather_fundamentals.py:459-733
format_fundamentals_markdown(tk, financials, supplementary) ==
    LET income == Get(financials, "income", EmptyDict)
        balance == Get(financials, "balance_sheet", EmptyDict)
        cash_flow == Get(financials, "cash_flow", EmptyDict)
        info == Get(supplementary, "info", EmptyDict)
        balance_lines == BalanceSection(balance)
    IN  IF balance_lines.raised THEN balance_lines
        ELSE Returned(Join(
               << "# Fundamental Analysis: $" \o tk, "" >>
               \o CompanyOverview(info)
               \o IncomeSection(income)
               \o balance_lines.value
               \o CashFlowSection(cash_flow)
               \o SupplementaryBlocks(supplementary)
               \o (IF DOMAIN income = {} /\ DOMAIN balance = {} /\ DOMAIN cash_flow = {}
                   THEN << "*No SEC EDGAR XBRL data found for this ticker.*",
                           "*This may mean the company files under a different CIK or is not a US-listed company.*",
                           "" >>
                   ELSE << >>), "\n"), << >>)

----------------------------------------------------------------------------
(* gather.py:214-334, gather(), one action per step of the pipeline *)

Idle ==
    /\ pc = "idle" /\ ticker = "" /\ agent = "" /\ sources_arg = None
    /\ dry_run = FALSE /\ timestamp = "" /\ store_module = {}
    /\ sources = << >> /\ i = 0 /\ gather_results = << >>
    /\ store_results = << >> /\ any_stored = FALSE
    /\ reindex_result = None /\ ret = None /\ calls = << >>

\* the resolution written `if not sources`: an explicit empty list falls
\* back to the agent's defaults
ResolveSources_falsy(ag, arg) ==
    IF arg = None \/ arg = Some(<< >>) THEN Get(AGENT_SOURCES, ag, << >>) ELSE arg[1]

\* gather.py:245-246
ResolveSources(ag, arg) ==
    IF arg = None THEN Get(AGENT_SOURCES, ag, << >>) ELSE arg[1]

\* gather.py:242-260: the call, the source resolution and the empty-list return
gather_resolve ==
    /\ pc = "idle"
    /\ \E tk \in Tickers, args \in GatherArgs, dry \in BOOLEAN,
          ts \in Timestamps, mod \in StoreModules :
         LET ag == args[1]
             srcs == ResolveSources(ag, args[2])
         IN  /\ ticker' = tk /\ agent' = ag /\ sources_arg' = args[2]
             /\ dry_run' = dry /\ timestamp' = ts /\ store_module' = mod
             /\ sources' = srcs
             /\ IF Len(srcs) = 0
                THEN /\ pc' = "done"
                     /\ i' = 0
                     /\ ret' = Some([ticker |-> tk, agent |-> ag, timestamp |-> ts,
                                     sources |-> << >>,
                                     gather_results |-> << >>,
                                     store_results |-> << >>,
                                     reindex |-> [success |-> FALSE,
                                                  message |-> "No sources to gather"],
                                     summary |-> "No sources configured for agent '"
                                                 \o ag \o "'",
                                     success |-> FALSE])
                ELSE /\ pc' = "gather"
                     /\ i' = 1
                     /\ ret' = None
    /\ UNCHANGED <<gather_results, store_results, any_stored, reindex_result,
                   calls, x_in, x_out>>

\* gather.py:264-270: one iteration of the gather loop
gather_source ==
    /\ pc = "gather"
    /\ \E fetch \in FetchOutcomes :
         LET source == sources[i]
             r == run_source(source, ticker, fetch)
             pause == IF source # sources[Len(sources)]
                      THEN << [op |-> "sleep"] >> ELSE << >>
         IN  IF r.raised
             THEN /\ pc' = "raised"
                  /\ calls' = calls \o << [op |-> "run_source", source |-> source] >>
                                    \o r.effects
                  /\ UNCHANGED <<gather_results, i>>
             ELSE /\ gather_results' = Append(gather_results, r.value)
                  /\ calls' = calls \o << [op |-> "run_source", source |-> source] >>
                                    \o r.effects \o pause
                  /\ IF i = Len(sources)
                     THEN pc' = "store" /\ i' = 1
                     ELSE pc' = "gather" /\ i' = i + 1
    /\ UNCHANGED <<ticker, agent, sources_arg, dry_run, timestamp, store_module,
                   sources, store_results, any_stored, reindex_result, ret,
                   x_in, x_out>>

\* gather.py:275-292: one iteration of the store loop
gather_store ==
    /\ pc = "store"
    /\ \E upload \in UploadOutcomes :
         LET gr == gather_results[i]
             r == store_source_result(ticker, gr.source, gr.markdown, timestamp,
                                      dry_run, store_module, upload)
             last == i = Len(gather_results)
         IN  IF gr.success /\ gr.markdown # ""
             THEN IF r.raised
                  THEN /\ pc' = "raised"
                       /\ calls' = calls \o r.effects
                       /\ UNCHANGED <<store_results, any_stored, i>>
                  ELSE /\ store_results' = Append(store_results, r.value)
                       /\ any_stored' = (any_stored \/ r.value.success)
                       /\ calls' = calls \o r.effects
                       /\ IF last THEN pc' = "reindex" /\ i' = 0
                                  ELSE pc' = "store" /\ i' = i + 1
             ELSE /\ store_results' =
                        Append(store_results,
                               [success |-> FALSE, key |-> "",
                                message |-> "Skipped: " \o gr.source \o " gather failed"])
                  /\ IF last THEN pc' = "reindex" /\ i' = 0
                             ELSE pc' = "store" /\ i' = i + 1
                  /\ UNCHANGED <<any_stored, calls>>
    /\ UNCHANGED <<ticker, agent, sources_arg, dry_run, timestamp, store_module,
                   sources, gather_results, reindex_result, ret, x_in, x_out>>

\* gather.py:295-298: the conditional reindex
gather_reindex ==
    /\ pc = "reindex"
    /\ \E reindex \in ReindexOutcomes :
         LET r == trigger_reindex(dry_run, store_module, reindex)
         IN  IF any_stored
             THEN IF r.raised
                  THEN /\ pc' = "raised"
                       /\ calls' = calls \o r.effects
                       /\ UNCHANGED reindex_result
                  ELSE /\ pc' = "summarize"
                       /\ reindex_result' = Some(r.value)
                       /\ calls' = calls \o r.effects
             ELSE /\ pc' = "summarize"
                  /\ reindex_result' =
                        Some([success |-> FALSE,
                              message |-> "No data stored - skipping reindex"])
                  /\ UNCHANGED calls
    /\ UNCHANGED <<ticker, agent, sources_arg, dry_run, timestamp, store_module,
                   sources, i, gather_results, store_results, any_stored, ret,
                   x_in, x_out>>

\* the digest whose failed clause names every source once one has failed
Summary_names_all(tk, grs) ==
    LET succeeded == IdxWhere([k \in 1..Len(grs) |-> grs[k].success], 1)
        summary_parts == [k \in 1..Len(succeeded) |->
                            _source_label(grs[succeeded[k]].source,
                                          grs[succeeded[k]].metric_count)]
        all_names == [k \in 1..Len(grs) |-> grs[k].source]
        head == IF Len(summary_parts) > 0
                THEN "$" \o tk \o ": " \o Join(summary_parts, ", ")
                ELSE "$" \o tk \o ": no data gathered"
    IN  IF \E k \in 1..Len(grs) : ~grs[k].success
        THEN head \o " (failed: " \o Join(all_names, ", ") \o ")"
        ELSE head

\* gather.py:301-314: the digest
Summary(tk, grs) ==
    LET succeeded == IdxWhere([k \in 1..Len(grs) |-> grs[k].success], 1)
        failed == IdxWhere([k \in 1..Len(grs) |-> ~grs[k].success], 1)
        summary_parts == [k \in 1..Len(succeeded) |->
                            _source_label(grs[succeeded[k]].source,
                                          grs[succeeded[k]].metric_count)]
        failed_names == [k \in 1..Len(failed) |-> grs[failed[k]].source]
        head == IF Len(summary_parts) > 0
                THEN "$" \o tk \o ": " \o Join(summary_parts, ", ")
                ELSE "$" \o tk \o ": no data gathered"
    IN  IF Len(failed) > 0
        THEN head \o " (failed: " \o Join(failed_names, ", ") \o ")"
        ELSE head

\* the overall success written as "no source failed"
OverallSuccess_none_failed(grs) == \A k \in 1..Len(grs) : grs[k].success

\* gather.py:332
OverallSuccess(grs) == \E k \in 1..Len(grs) : grs[k].success

\* gather.py:300-334: the summary and the return
gather_summarize ==
    /\ pc = "summarize"
    /\ pc' = "done"
    /\ ret' = Some([ticker |-> ticker, agent |-> agent, timestamp |-> timestamp,
                    sources |-> sources,
                    gather_results |->
                        [k \in 1..Len(gather_results) |->
                            [source |-> gather_results[k].source,
                             success |-> gather_results[k].success,
                             metric_count |-> gather_results[k].metric_count,
                             error |-> gather_results[k].error]],
                    store_results |->
                        [k \in 1..Len(store_results) |->
                            [source |-> IF k <= Len(sources) THEN sources[k]
                                        ELSE "unknown",
                             success |-> store_results[k].success,
                             key |-> Get(store_results[k], "key", ""),
                             message |-> Get(store_results[k], "message", "")]],
                    reindex |-> reindex_result[1],
                    summary |-> Summary(ticker, gather_results),
                    success |-> OverallSuccess(gather_results),
                    dry_run |-> dry_run])
    /\ UNCHANGED <<ticker, agent, sources_arg, dry_run, timestamp, store_module,
                   sources, i, gather_results, store_results, any_stored,
                   reindex_result, calls, x_in, x_out>>

\* the caller consumes the result (or the fault); the next invocation starts
\* from fresh request-scoped state
gather_finish ==
    /\ pc \in {"done", "raised"}
    /\ pc' = "idle" /\ ticker' = "" /\ agent' = "" /\ sources_arg' = None
    /\ dry_run' = FALSE /\ timestamp' = "" /\ store_module' = {}
    /\ sources' = << >> /\ i' = 0 /\ gather_results' = << >>
    /\ store_results' = << >> /\ any_stored' = FALSE
    /\ reindex_result' = None /\ ret' = None /\ calls' = << >>
    /\ UNCHANGED <<x_in, x_out>>

Init == Idle /\ x_in = None /\ x_out = None

Next ==
    \/ gather_resolve
    \/ gather_source
    \/ gather_store
    \/ gather_reindex
    \/ gather_summarize
    \/ gather_finish

Spec == Init /\ [][Next]_vars

----------------------------------------------------------------------------
(* Claims about the Gather Orchestrator *)

CallsOf(op) == SelectSeq(calls, LAMBDA c : c.op = op)

NumCalls(op) == Len(CallsOf(op))

\* the gather loop is over: gather_results is complete
Gathered == pc \in {"store", "reindex", "summarize"} \/ (pc = "done" /\ Len(sources) > 0)

\* the store loop is over: store_results is complete
Stored == pc \in {"reindex", "summarize"} \/ (pc = "done" /\ Len(sources) > 0)

\* the reindex step is over
Reindexed == pc = "summarize" \/ (pc = "done" /\ Len(sources) > 0)

Finished == pc = "done" /\ Len(sources) > 0

HasContent(gr) == gr.success /\ gr.markdown # ""

AnyStoreSucceeded == \E k \in 1..Len(store_results) : store_results[k].success

ContentIdx ==
    IdxWhere([k \in 1..Len(gather_results) |-> HasContent(gather_results[k])], 1)

\* C2 as stated: the reindex sink is invoked exactly once if at least one
\* Store Result has success=true, and zero times otherwise.
C2_ReindexOnceIffStored ==
    Reindexed =>
        NumCalls("trigger_kb_reindex") = (IF AnyStoreSucceeded THEN 1 ELSE 0)

\* C2 amended: the reindex sink is invoked exactly once if at least one Store
\* Result has success=true, the run is not a dry run and the store module
\* provides trigger_kb_reindex; in every other case it is invoked zero times,
\* and it is never invoked before the store stage is over.
C2_ReindexGating ==
    /\ Reindexed =>
         NumCalls("trigger_kb_reindex") =
            (IF AnyStoreSucceeded /\ ~dry_run /\ "trigger_kb_reindex" \in store_module
             THEN 1 ELSE 0)
    /\ ~Reindexed => NumCalls("trigger_kb_reindex") = 0

\* two sources stored successfully, the sink was invoked once
C2_Witness ==
    /\ Finished /\ ~dry_run
    /\ Cardinality({k \in 1..Len(store_results) : store_results[k].success}) >= 2
    /\ NumCalls("trigger_kb_reindex") = 1

\* the uploads the claim expects: one per result with content, in order
ExpectedUploads ==
    [k \in 1..Len(ContentIdx) |->
        [markdown_content |-> gather_results[ContentIdx[k]].markdown,
         ticker |-> ticker,
         source |-> sources[ContentIdx[k]],
         timestamp |-> timestamp]]

ActualUploads ==
    LET ups == CallsOf("upload_to_spaces")
    IN  [k \in 1..Len(ups) |->
            [markdown_content |-> ups[k].markdown_content, ticker |-> ups[k].ticker,
             source |-> ups[k].source, timestamp |-> ups[k].timestamp]]

SkippedResultsSynthesized ==
    /\ Len(store_results) = Len(gather_results)
    /\ \A k \in 1..Len(gather_results) :
         ~HasContent(gather_results[k]) =>
            store_results[k] = [success |-> FALSE, key |-> "",
                                message |-> "Skipped: " \o sources[k] \o " gather failed"]
    /\ Finished =>
         /\ Len(ret[1].store_results) = Len(ret[1].gather_results)
         /\ \A k \in 1..Len(sources) :
              /\ ret[1].gather_results[k].source = sources[k]
              /\ ret[1].store_results[k].source = sources[k]
              /\ ret[1].store_results[k].success = store_results[k].success
              /\ ret[1].store_results[k].message = store_results[k].message

\* C3 as stated: the storage sink is invoked exactly once, with the content,
\* ticker, source name and timestamp, for each result that succeeded with
\* non-empty markdown, and never for another; those get a 'Skipped' result.
C3_StoreOncePerContent ==
    Stored => (ActualUploads = ExpectedUploads /\ SkippedResultsSynthesized)

\* C3 amended: in a run that is not a dry run and whose store module provides
\* upload_to_spaces, the storage sink is invoked exactly once (content, ticker,
\* source name, timestamp), in order, for each result that succeeded with
\* non-empty markdown; in a dry run or without the module it is never invoked.
\* In every run a result that failed or is empty gets the synthesized
\* 'Skipped' Store Result with success=false and no sink call, and
\* store_results has one entry per gather result in the same order.
C3_StagePersistence ==
    Stored =>
        /\ ActualUploads =
              (IF ~dry_run /\ "upload_to_spaces" \in store_module
               THEN ExpectedUploads ELSE << >>)
        /\ SkippedResultsSynthesized

\* a run that uploaded one result and skipped a failed and an empty one
C3_Witness ==
    /\ Finished /\ ~dry_run
    /\ NumCalls("upload_to_spaces") = 1
    /\ \E k \in 1..Len(gather_results) : ~gather_results[k].success
    /\ \E k \in 1..Len(gather_results) :
          gather_results[k].success /\ gather_results[k].markdown = ""

RunSourceCalls ==
    LET rs == CallsOf("run_source") IN [k \in 1..Len(rs) |-> rs[k].source]

C4_Safety ==
    /\ pc # "raised"
    /\ pc = "gather" =>
          /\ RunSourceCalls = SubSeq(sources, 1, i - 1)
          /\ Len(gather_results) = i - 1
    /\ Gathered =>
          /\ RunSourceCalls = sources
          /\ Len(gather_results) = Len(sources)
    /\ \A k \in 1..Len(gather_results) : gather_results[k].source = sources[k]
    /\ Finished =>
          /\ Len(ret[1].gather_results) = Len(sources)
          /\ \A k \in 1..Len(sources) :
                ret[1].gather_results[k].source = sources[k]

Running == pc \in {"gather", "store", "reindex", "summarize"}

\* the number of steps a running invocation still has to take before it returns
StepsLeft ==
    CASE pc = "gather" -> (Len(sources) - i + 1) + Len(sources) + 2
      [] pc = "store" -> (Len(sources) - i + 1) + 2
      [] pc = "reindex" -> 2
      [] pc = "summarize" -> 1
      [] OTHER -> 0

\* the step a running invocation is about to take is defined: its loop index
\* addresses an element, and the summary has a reindex result to report
NextStepDefined ==
    /\ pc = "gather" => i \in 1..Len(sources)
    /\ pc = "store" => i \in 1..Len(gather_results)
    /\ pc = "summarize" => reindex_result # None

\* C4: the Source Runner is invoked exactly once per list position, in list
\* order, whatever the earlier sources did; gather_results has one entry per
\* position in that order; no fault escapes, and every step of a running
\* invocation is defined and brings it exactly one step closer to the return
\* of its summary, which it reaches when no step is left (so it runs to
\* completion).
C4_SequentialIsolation ==
    /\ [](C4_Safety /\ NextStepDefined)
    /\ [][Running => (StepsLeft' = StepsLeft - 1 /\ (StepsLeft' = 0 <=> pc' = "done"))]_vars

\* a completed run of three sources whose first source raised and whose
\* later sources were still invoked
C4_Witness ==
    /\ Finished /\ Len(sources) = 3
    /\ ~gather_results[1].success
    /\ gather_results[2].success /\ gather_results[3].success
    /\ RunSourceCalls = sources

\* C5: the overall success is true iff at least one Gather Result succeeded,
\* whatever the stores and the reindex did.
C5_SuccessIffSourceSucceeded ==
    pc = "done" =>
        (ret[1].success <=>
            \E k \in 1..Len(ret[1].gather_results) : ret[1].gather_results[k].success)

\* a source succeeded, every store and the reindex failed: success is true
C5_Witness ==
    /\ Finished /\ ~dry_run /\ ret[1].success
    /\ \A k \in 1..Len(store_results) : ~store_results[k].success
    /\ ~ret[1].reindex.success
    /\ NumCalls("upload_to_spaces") >= 1

\* every pause sits between two Source Runner calls
PausesBetweenCalls ==
    \A k \in 1..Len(calls) :
        calls[k].op = "sleep" =>
            /\ \E j \in 1..(k - 1) : calls[j].op = "run_source"
            /\ \E j \in (k + 1)..Len(calls) : calls[j].op = "run_source"
            /\ k > 1 => calls[k - 1].op # "sleep"

\* C6: a run over n sources (names may repeat) makes exactly n-1 pacing
\* delays, each between two consecutive Source Runner calls, none before the
\* first call or after the last.
C6_PacingBetweenCalls ==
    Gathered => (NumCalls("sleep") = Len(sources) - 1 /\ PausesBetweenCalls)

NoSourcesInput ==
    \/ sources_arg = Some(<< >>)
    \/ sources_arg = None /\ agent \notin {"nova", "luna", "ace"}

\* C7: with no explicit list and an agent without default sources (or an
\* unknown agent), or with an explicit empty list, gather() returns at once:
\* success=false, a summary containing 'No sources', empty gather and store
\* results, a failed reindex result, and no runner, sink or pause was invoked.
C7_EmptySourceListShortCircuit ==
    (pc # "idle" /\ NoSourcesInput) =>
        /\ pc = "done"
        /\ ret[1].success = FALSE
        /\ Contains(ret[1].summary, "No sources")
        /\ ret[1].gather_results = << >>
        /\ ret[1].store_results = << >>
        /\ ret[1].reindex.success = FALSE
        /\ calls = << >>

\* an explicit empty list given to an agent that has default sources
C7_Witness ==
    pc = "done" /\ sources_arg = Some(<< >>) /\ agent = "ace" /\ ret # None

\* C8: in a dry run neither the storage sink nor the reindex sink is invoked.
C8_DryRunContactsNoSink ==
    dry_run => (NumCalls("upload_to_spaces") = 0 /\ NumCalls("trigger_kb_reindex") = 0)

\* a finished dry run with content to store
C8_Witness ==
    /\ Finished /\ dry_run /\ store_module = {"upload_to_spaces", "trigger_kb_reindex"}
    /\ \E k \in 1..Len(gather_results) : HasContent(gather_results[k])
    /\ any_stored

IsDryRunResult(r) == r.success /\ StartsWith(r.message, "[DRY RUN]")

\* C9 as stated: in a dry run over a non-empty list every Store Result and
\* the Reindex Result has success=true and a dry-run message.
C9_DryRunAllPlaceholders ==
    (Finished /\ dry_run) =>
        /\ \A k \in 1..Len(ret[1].store_results) : IsDryRunResult(ret[1].store_results[k])
        /\ IsDryRunResult(ret[1].reindex)

\* C9 amended: in a dry run over a non-empty list, the Store Result of every
\* source that succeeded with non-empty markdown has success=true and a
\* '[DRY RUN]' message, and the Reindex Result has success=true and a
\* '[DRY RUN]' message if there is such a source; a source that failed or
\* has empty markdown gets the failed 'Skipped' Store Result, and with no
\* source stored the Reindex Result is the failed 'No data stored' one.
C9_DryRunPlaceholders ==
    (Finished /\ dry_run) =>
        /\ \A k \in 1..Len(sources) :
              IF HasContent(gather_results[k])
              THEN /\ IsDryRunResult(ret[1].store_results[k])
                   /\ Contains(ret[1].store_results[k].message, sources[k])
              ELSE /\ ~ret[1].store_results[k].success
                   /\ StartsWith(ret[1].store_results[k].message, "Skipped")
        /\ IF \E k \in 1..Len(sources) : HasContent(gather_results[k])
           THEN IsDryRunResult(ret[1].reindex)
           ELSE /\ ~ret[1].reindex.success
                /\ StartsWith(ret[1].reindex.message, "No data stored")

\* a dry run with one source stored and one source failed
C9_Witness ==
    /\ Finished /\ dry_run
    /\ \E k \in 1..Len(sources) : HasContent(gather_results[k])
    /\ \E k \in 1..Len(sources) : ~gather_results[k].success
    /\ IsDryRunResult(ret[1].reindex)

\* C10: in a run that is not a dry run, a sink that raises or is unavailable
\* never makes gather() raise: the Store Result (Reindex Result) of the
\* affected call has success=false and a message, every result with content
\* still gets its store attempt, and the summary is returned.
C10_SinkFailuresContained ==
    ~dry_run =>
        /\ pc # "raised"
        /\ Stored =>
             /\ Len(store_results) = Len(gather_results)
             /\ IF "upload_to_spaces" \in store_module
                THEN LET ups == CallsOf("upload_to_spaces")
                     IN  /\ Len(ups) = Len(ContentIdx)
                         /\ \A k \in 1..Len(ups) :
                               ups[k].raised =>
                                  /\ ~store_results[ContentIdx[k]].success
                                  /\ \/ StartsWith(store_results[ContentIdx[k]].message,
                                                   "Upload failed: ")
                                     \/ StartsWith(store_results[ContentIdx[k]].message,
                                                   "store.py not available")
                ELSE \A k \in 1..Len(ContentIdx) :
                        /\ ~store_results[ContentIdx[k]].success
                        /\ StartsWith(store_results[ContentIdx[k]].message,
                                      "store.py not available")
        /\ (Reindexed /\ any_stored) =>
             LET rx == CallsOf("trigger_kb_reindex")
             IN  IF "trigger_kb_reindex" \in store_module
                 THEN /\ Len(rx) = 1
                      /\ rx[1].raised =>
                            /\ ~reindex_result[1].success
                            /\ \/ StartsWith(reindex_result[1].message, "Reindex failed: ")
                               \/ StartsWith(reindex_result[1].message,
                                             "store.py not available")
                 ELSE /\ ~reindex_result[1].success
                      /\ StartsWith(reindex_result[1].message, "store.py not available")
        /\ Finished => (ret # None /\ ret[1].reindex = reindex_result[1])

\* the first upload raised, the second was still attempted and succeeded,
\* then the reindex sink raised, and the summary was returned
C10_Witness ==
    /\ Finished /\ ~dry_run
    /\ LET ups == CallsOf("upload_to_spaces")
           rx == CallsOf("trigger_kb_reindex")
       IN  /\ Len(ups) >= 2 /\ ups[1].raised /\ ~ups[2].raised
           /\ Len(rx) = 1 /\ rx[1].raised
    /\ ret[1].success

EndsWith(s, suf) ==
    Len(suf) <= Len(s) /\ SubSeq(s, Len(s) - Len(suf) + 1, Len(s)) = suf

\* the label the digest is to show for a succeeded source
DigestLabel(gr) ==
    CASE gr.source = "web" -> Str(gr.metric_count) \o " articles/filings"
      [] gr.source = "fundamentals" -> Str(gr.metric_count) \o " financial metrics"
      [] gr.source = "social" -> Str(gr.metric_count) \o " social posts"
      [] gr.source = "technicals" -> Str(gr.metric_count) \o " technical signals"
      [] OTHER -> Str(gr.metric_count) \o " items from " \o gr.source

SucceededIdx == IdxWhere([k \in 1..Len(gather_results) |-> gather_results[k].success], 1)

FailedIdx == IdxWhere([k \in 1..Len(gather_results) |-> ~gather_results[k].success], 1)

DigestLabels ==
    Join([k \in 1..Len(SucceededIdx) |-> DigestLabel(gather_results[SucceededIdx[k]])], ", ")

\* the failed clause: the names at the failed positions, in list order
FailedClause ==
    " (failed: " \o Join([k \in 1..Len(FailedIdx) |-> sources[FailedIdx[k]]], ", ") \o ")"

OptionalFailedClause == IF Len(FailedIdx) > 0 THEN FailedClause ELSE ""

\* C11 as stated: the summary is '$' + ticker + ': ' + the comma-joined labels
\* of the succeeded sources in source order, followed only by the optional
\* failed clause.
C11_DigestIsLabels ==
    Finished =>
        ret[1].summary = "$" \o ticker \o ": " \o DigestLabels \o OptionalFailedClause

\* C11 amended: when at least one source succeeded, the summary is '$' +
\* ticker + ': ' + the comma-joined labels of the succeeded sources in source
\* order, followed only by the optional failed clause (web 5 and fundamentals
\* 16 on CAKE give '$CAKE: 5 articles/filings, 16 financial metrics'); when no
\* source succeeded the labels are replaced by the text 'no data gathered'.
C11_DigestLabels ==
    Finished =>
        /\ ret[1].summary =
              "$" \o ticker \o ": "
                  \o (IF Len(SucceededIdx) > 0 THEN DigestLabels ELSE "no data gathered")
                  \o OptionalFailedClause
        /\ ( /\ ticker = "CAKE" /\ sources = <<"web", "fundamentals">>
             /\ gather_results[1].success /\ gather_results[1].metric_count = 5
             /\ gather_results[2].success /\ gather_results[2].metric_count = 16 )
           => ret[1].summary = "$CAKE: 5 articles/filings, 16 financial metrics"

\* the spec's example run
C11_Witness ==
    /\ Finished /\ sources = <<"web", "fundamentals">>
    /\ ret[1].summary = "$CAKE: 5 articles/filings, 16 financial metrics"

\* C12: the summary ends with ' (failed: <names>)' iff at least one source
\* failed; the clause names exactly the failed positions of the source list,
\* comma-joined in list order, and a run in which no source failed has no
\* failed clause; no name of the clause belongs to a position that succeeded
\* unless the list repeats that name at a failed position.
C12_FailedClause ==
    Finished =>
        /\ (\E k \in 1..Len(ret[1].gather_results) : ~ret[1].gather_results[k].success)
              <=> EndsWith(ret[1].summary, ")")
        /\ IF Len(FailedIdx) > 0
           THEN /\ EndsWith(ret[1].summary, FailedClause)
                /\ ~Contains(SubSeq(ret[1].summary, 1,
                                    Len(ret[1].summary) - Len(FailedClause)),
                             "(failed")
           ELSE ~Contains(ret[1].summary, "(failed")

\* three sources: the first and the last failed, the second succeeded
C12_Witness ==
    /\ Finished /\ sources = <<"web", "fundamentals", "custom">>
    /\ ~gather_results[1].success /\ gather_results[2].success
    /\ EndsWith(ret[1].summary, " (failed: web, custom)")

\* the positions of the Source Runner calls in the log
RunIdx == IdxWhere([j \in 1..Len(calls) |-> calls[j].op = "run_source"], 1)

\* the imports and gather-function calls the k-th Source Runner call made
RunnerEvents(k) ==
    LET from == RunIdx[k] + 1
        to == IF k < Len(RunIdx) THEN RunIdx[k + 1] - 1 ELSE Len(calls)
    IN  SelectSeq(SubSeq(calls, from, to), LAMBDA c : c.op \in {"import", "fetch"})

Registered(source) == source \in {"web", "fundamentals", "social", "technicals"}

\* C13: for a source that is not in the registry the Source Runner returns a
\* Gather Result with success=false, empty markdown, metric_count 0 and an
\* error containing 'Unknown source', and it imports no module and calls no
\* gather function.
C13_UnknownSourceRejected ==
    \A k \in 1..Len(gather_results) :
        ~Registered(sources[k]) =>
            /\ gather_results[k].source = sources[k]
            /\ gather_results[k].success = FALSE
            /\ gather_results[k].markdown = ""
            /\ gather_results[k].metric_count = 0
            /\ gather_results[k].error # None
            /\ Contains(gather_results[k].error[1], "Unknown source")
            /\ RunnerEvents(k) = << >>

\* an unknown source ran between two registered ones
C13_Witness ==
    /\ Finished /\ sources = <<"web", "custom", "fundamentals">>
    /\ gather_results[1].success /\ gather_results[3].success
    /\ Len(CallsOf("fetch")) = 2

\* C14: when the gather function of a registered source raises, or returns
\* something no markdown or count can be read from, the Source Runner does
\* not raise: its Gather Result has success=false, empty markdown,
\* metric_count 0 and the fault's message as error.  In every Gather Result
\* the error is present only if success is false and the markdown is
\* non-empty only if success is true.
C14_FaultsBecomeResults ==
    /\ pc # "raised"
    /\ LET runs == RunIdx
       IN  \A k \in 1..Len(gather_results) :
              /\ gather_results[k].error # None => ~gather_results[k].success
              /\ gather_results[k].markdown # "" => gather_results[k].success
              /\ Registered(sources[k]) =>
                    \* the call of the gather function follows the import
                    LET fetch == calls[runs[k] + 2]
                        fault == IF fetch.raised THEN Some(fetch.msg)
                                 ELSE IF fetch.value = None
                                 THEN Some("'NoneType' object has no attribute 'get'")
                                 ELSE None
                    IN  /\ fetch.op = "fetch"
                        /\ fault # None =>
                               gather_results[k] =
                                  [source |-> sources[k], success |-> FALSE,
                                   markdown |-> "", metric_count |-> 0, error |-> fault]

\* one gather function raised, another returned None, the run finished
C14_Witness ==
    /\ Finished /\ Len(sources) >= 2
    /\ gather_results[1].error = Some("API unavailable")
    /\ gather_results[2].error = Some("'NoneType' object has no attribute 'get'")

----------------------------------------------------------------------------
(* The extractor as a state machine: an input is drawn, the call is made *)

E_K24 == [form |-> "10-K", end |-> "2024-12-31", val |-> 100,
          filed |-> "2025-02-20", fy |-> 2024, fp |-> "FY"]

E_KA24 == [form |-> "10-K/A", end |-> "2024-12-31", val |-> 110,
           filed |-> "2025-06-30", fy |-> 2024, fp |-> "FY"]

E_Q24 == [form |-> "10-Q", end |-> "2024-09-30", val |-> 30,
          filed |-> "2024-11-01", fy |-> 2024, fp |-> "Q3"]

E_K23 == [form |-> "10-K", end |-> "2023-12-31", val |-> 90,
          filed |-> "2024-02-20", fy |-> 2023, fp |-> "FY"]

E_8K == [form |-> "8-K", end |-> "2024-12-31", val |-> 7,
         filed |-> "2025-01-15", fy |-> 2024, fp |-> "FY"]

E_Old == [form |-> "10-K", end |-> "2019-12-31", val |-> 50,
          filed |-> "2020-02-20", fy |-> 2019, fp |-> "FY"]

E_Alt == [form |-> "10-K", end |-> "2023-12-31", val |-> 999,
          filed |-> "2024-02-20", fy |-> 2023, fp |-> "FY"]

\* "end": 20241231, a number where the payload should carry a string
E_IntEnd == [form |-> "10-K", end_int |-> 20241231, val |-> 8]

\* a fact reported as a share count
E_Share == [form |-> "10-K", end |-> "2024-12-31", val |-> 777,
            filed |-> "2025-02-20", fy |-> 2024, fp |-> "FY"]

\* with a fact without "end" and a fact whose "end" is no date
EntryPool ==
    {E_K24, E_KA24, E_Q24, E_K23, E_8K,
     [form |-> "10-K", val |-> 5],
     [form |-> "10-K", end |-> "n/a", val |-> 6],
     E_Old, E_IntEnd}

Series == ListsUpTo(EntryPool, MaxEntries)

Concept(unit, entries) == [units |-> (unit :> entries)]

\* where the fixed series <<E_Alt>> is reported: nowhere, under the second
\* alias, or under a later unit kind of the first alias; in the layout
\* "both" the second alias reports it in USD and the first alias reports
\* <<E_Share>> as a share count
Layouts == {"none", "alias", "unit", "both"}

\* a companyfacts payload: the first alias carries the drawn series in USD
Facts(entries, layout) ==
    [facts |-> ("us-gaap" :>
        CASE layout = "none" -> ("Revenues" :> Concept("USD", entries))
          [] layout = "alias" ->
               ("Revenues" :> Concept("USD", entries)
                @@ "SalesRevenueNet" :> Concept("USD", <<E_Alt>>))
          [] layout = "unit" ->
               ("Revenues" :> [units |-> ("USD" :> entries @@ "shares" :> <<E_Alt>>)])
          [] layout = "both" ->
               ("Revenues" :> [units |-> ("USD" :> entries @@ "shares" :> <<E_Share>>)]
                @@ "SalesRevenueNet" :> Concept("USD", <<E_Alt>>)))]

ExtractInputs ==
    { [facts |-> Facts(s, l), concept_names |-> <<"Revenues", "SalesRevenueNet">>,
       years |-> y, now_year |-> 2026] : s \in Series, l \in Layouts, y \in {2, 5} }

extract_call ==
    /\ x_in # None /\ x_out = None
    /\ x_out' = Some(_extract_concept_data(x_in[1].facts, x_in[1].concept_names,
                                           x_in[1].years, x_in[1].now_year))
    /\ UNCHANGED <<gvars, x_in>>

InitExtract == Idle /\ x_in \in { Some(inp) : inp \in ExtractInputs } /\ x_out = None

NextExtract == extract_call

SpecExtract == InitExtract /\ [][NextExtract]_vars

----------------------------------------------------------------------------
(* The Metric Aggregator as a state machine *)

\* the concepts the drawn payloads report: two aliases of revenue, one
\* balance-sheet concept and one cash-flow concept
AggregateConcepts ==
    {"Revenues", "SalesRevenueNet", "Assets", "NetCashProvidedByOperatingActivities"}

\* what a payload reports for one concept; the empty series stands for a
\* concept the payload does not mention
AggregateSeries == ListsUpTo({E_K24, E_Old, E_IntEnd}, MaxEntries - 2)

\* a payload that reports the series pick[c] for each concept c
Payload(pick) ==
    [cik |-> 887596,
     facts |-> ("us-gaap" :>
                  [c \in {d \in AggregateConcepts : pick[d] # << >>} |->
                      Concept("USD", pick[c])])]

\* a payload without us-gaap facts
NoGaapPayload == [cik |-> 887596, facts |-> ("dei" :> EmptyDict)]

AggregateInputs ==
    { [facts |-> f, years |-> 5, now_year |-> 2026] :
        f \in {None, NoGaapPayload}
              \cup { Payload(pick) : pick \in [AggregateConcepts -> AggregateSeries] } }

aggregate_call ==
    /\ x_in # None /\ x_out = None
    /\ x_out' = Some(extract_financials(x_in[1].facts, x_in[1].years, x_in[1].now_year))
    /\ UNCHANGED <<gvars, x_in>>

InitAggregate == Idle /\ x_in \in { Some(inp) : inp \in AggregateInputs } /\ x_out = None

NextAggregate == aggregate_call

SpecAggregate == InitAggregate /\ [][NextAggregate]_vars

----------------------------------------------------------------------------
(* The calls on one Metric Series as a state machine *)

\* with a quarterly fact of 2023, an annual fact of value 0, and a fact
\* without "val": the value of its Observation is None
SeriesEntryPool ==
    {E_K24, E_KA24, E_Q24, E_K23,
     [form |-> "10-Q", end |-> "2023-09-30", val |-> 24,
      filed |-> "2023-11-01", fy |-> 2023, fp |-> "Q3"],
     [form |-> "10-K", end |-> "2022-12-31", val |-> 0,
      filed |-> "2023-02-20", fy |-> 2022, fp |-> "FY"],
     [form |-> "10-K", end |-> "2022-12-31",
      filed |-> "2023-02-20", fy |-> 2022, fp |-> "FY"]}

\* the Metric Series the extractor makes of the lists of these facts
MetricSeries ==
    { Dedup(SortByEndDate(FilterEntries(entries, 2021).value), {}, << >>) :
        entries \in ListsUpTo(SeriesEntryPool, MaxEntries) }

latest_call ==
    /\ x_in # None /\ x_out = None
    /\ x_out' = Some([call |-> "_get_latest_value",
                      value |-> _get_latest_value(x_in[1], "10-K")])
    /\ UNCHANGED <<gvars, x_in>>

trend_call ==
    /\ x_in # None /\ x_out = None
    /\ x_out' = Some([call |-> "_format_trend",
                      value |-> _format_trend(x_in[1], "10-K")])
    /\ UNCHANGED <<gvars, x_in>>

InitSeries == Idle /\ x_in \in { Some(data) : data \in MetricSeries } /\ x_out = None

NextSeries == latest_call \/ trend_call

SpecSeries == InitSeries /\ [][NextSeries]_vars

----------------------------------------------------------------------------
(* The report formatter as a state machine *)

\* the Observation of an annual report for fiscal year fy
AnnualObservation(value, fy) ==
    [value |-> value, end_date |-> Str(fy) \o "-12-31", form |-> "10-K",
     filed |-> Str(fy + 1) \o "-02-20", fiscal_year |-> Some(fy), fiscal_period |-> "FY"]

\* the series a document may hold for a metric: none (the metric is not a
\* key), one annual Observation without a value, or one with each of the
\* given values
SeriesWith(values) ==
    {<< >>, <<AnnualObservation(None, 2024)>>}
        \cup { <<AnnualObservation(Some(v), 2024)>> : v \in values }

\* a category of a Metrics Document: the metrics with a non-empty series
Category(pick) == [m \in {n \in DOMAIN pick : pick[n] # << >>} |-> pick[m]]

MetricsDocument(income, balance_sheet, cash_flow) ==
    [income |-> Category(income), balance_sheet |-> Category(balance_sheet),
     cash_flow |-> Category(cash_flow)]

RevenueSeries ==
    SeriesWith({0, 200, 0 - 50})
        \cup { <<AnnualObservation(Some(160), 2023), AnnualObservation(Some(200), 2024)>> }

IncomeDocuments ==
    { MetricsDocument([revenue |-> r, gross_profit |-> gp, operating_income |-> oi,
                       net_income |-> ni], EmptyDict, EmptyDict) :
        r \in RevenueSeries, gp \in SeriesWith({0, 80}),
        oi \in SeriesWith({0, 30}), ni \in SeriesWith({0, 0 - 25}) }

BalanceDocuments ==
    { MetricsDocument(EmptyDict,
          [total_liabilities |-> tl, stockholders_equity |-> eq, current_assets |-> ca,
           current_liabilities |-> cl, cash |-> c, long_term_debt |-> ltd], EmptyDict) :
        tl \in SeriesWith({0, 300}), eq \in SeriesWith({0, 200}),
        ca \in SeriesWith({400}), cl \in SeriesWith({0, 100}),
        c \in SeriesWith({50}), ltd \in SeriesWith({0, 500, 1200}) }

CashFlowDocuments ==
    { MetricsDocument(EmptyDict, EmptyDict, [operating_cash_flow |-> ocf, capex |-> cx]) :
        ocf \in SeriesWith({0, 100}), cx \in SeriesWith({0, 30, 0 - 30}) }

\* documents with all three categories
FullDocuments ==
    { MetricsDocument([revenue |-> <<AnnualObservation(Some(200), 2024)>>, net_income |-> ni],
                      [total_liabilities |-> tl,
                       stockholders_equity |-> <<AnnualObservation(Some(200), 2024)>>],
                      [operating_cash_flow |-> <<AnnualObservation(Some(100), 2024)>>,
                       capex |-> cx]) :
        ni \in SeriesWith({0 - 25}), tl \in SeriesWith({300}), cx \in SeriesWith({30}) }

\* the float n / d of the supplementary data
Float(n, d) == Some([n |-> n, d |-> d])

\* the company info fetch_yfinance_supplementary builds (328-343): every key
\* present, the description naming the figures of the filing data
FullInfo ==
    [name |-> "Cheesecake", long_name |-> "The Cheesecake Factory Incorporated",
     sector |-> "Consumer Cyclical", industry |-> "Restaurants",
     market_cap |-> Some(1500000000), enterprise_value |-> Some(0),
     trailing_pe |-> Float(57, 2), forward_pe |-> None,
     price_to_book |-> Float(29, 8), dividend_yield |-> Float(1, 40),
     beta |-> Float(0 - 1, 200),
     52_week_high |-> Float(4321, 100), 52_week_low |-> Float(61, 2),
     description |-> "Margins, D/E: and Current: are ratios; - **Free Cash Flow**: is cash."]

\* recommendations: an upgrade, firms named like lines of the filing data,
\* one without grade, one under the other spelling of the keys, one with
\* the columns of a summary table; six, of which the last five are shown
Recommendations ==
    << ("Firm" :> "First Bank") @@ ("To Grade" :> "Hold") @@ ("Action" :> "main"),
       ("Firm" :> "Free Cash Flow") @@ ("To Grade" :> "Buy") @@ ("Action" :> "up"),
       ("Firm" :> "Margins") @@ ("To Grade" :> "Sell") @@ ("Action" :> ""),
       ("Firm" :> "No Grade") @@ ("To Grade" :> "") @@ ("Action" :> "init"),
       ("firm" :> "Key Ratios") @@ ("toGrade" :> "D/E: 9.99") @@ ("action" :> "down"),
       ("period" :> "0m") @@ ("strongBuy" :> "5") >>

\* nine earnings entries, of which the last eight are shown: one without
\* values, one under the other spelling of the keys, one without keys
EarningsEntries ==
    LET EarningsEntry(quarter, estimate, actual, surprise) ==
            ("Quarter End" :> quarter) @@ ("EPS Estimate" :> estimate)
                @@ ("EPS Actual" :> actual) @@ ("Surprise(%)" :> surprise)
    IN  << EarningsEntry("2022-09-30", Float(1, 2), Float(3, 4), Float(50, 1)),
           EarningsEntry("2022-12-31", None, None, None),
           ("quarter" :> "2023-03-31") @@ ("epsEstimate" :> Float(1, 200))
               @@ ("epsActual" :> Float(0 - 1, 2))
               @@ ("surprisePercent" :> Float(0 - 201, 2)),
           ("period" :> "2023-06-30"),
           EarningsEntry("2023-09-30", Float(5, 8), Float(3, 1), Float(1, 20)),
           EarningsEntry("2023-12-31", Float(1, 1), Float(0, 1), Float(0 - 100, 1)),
           EarningsEntry("2024-03-31", Float(3, 200), Float(1, 8), Float(2201, 3)),
           EarningsEntry("2024-06-30", Float(7, 10), Float(4, 5), Float(100, 7)),
           EarningsEntry("2024-09-30", Float(9, 10), None, None) >>

\* the supplementary data: none, what the fetcher returns when it gets
\* nothing, and infos, recommendations and earnings; one info is without
\* names, with an industry only and a description of more than 500
\* characters
SupplementaryInputs ==
    LET ten == "0123456789"
        hundred == ten \o ten \o ten \o ten \o ten \o ten \o ten \o ten \o ten \o ten
        sparse ==
            [name |-> "CAKE", long_name |-> "", sector |-> "", industry |-> "Restaurants",
             market_cap |-> None, enterprise_value |-> Some(2000),
             trailing_pe |-> None, forward_pe |-> Float(0 - 25, 2),
             price_to_book |-> None, dividend_yield |-> None, beta |-> Float(0, 1),
             52_week_high |-> Float(50, 1), 52_week_low |-> None,
             description |-> hundred \o hundred \o hundred \o hundred \o hundred \o "tail"]
    IN  { EmptyDict,
          [info |-> EmptyDict, recommendations |-> << >>, earnings_history |-> << >>],
          [info |-> FullInfo, recommendations |-> Recommendations,
           earnings_history |-> EarningsEntries],
          [info |-> sparse, recommendations |-> << >>, earnings_history |-> << >>],
          [info |-> EmptyDict, recommendations |-> SubSeq(Recommendations, 1, 2),
           earnings_history |-> << >>],
          [info |-> [sector |-> "Consumer Cyclical"], recommendations |-> << >>,
           earnings_history |-> SubSeq(EarningsEntries, 1, 2)],
          [recommendations |-> SubSeq(Recommendations, 6, 6)] }

\* every document without supplementary data and with the full
\* supplementary data, and the documents of all three categories and the
\* empty document with each supplementary data
ReportInputs ==
    { [ticker |-> "CAKE", financials |-> doc, supplementary |-> supp] :
        doc \in IncomeDocuments \cup BalanceDocuments \cup CashFlowDocuments
                \cup FullDocuments,
        supp \in { EmptyDict,
                   [info |-> FullInfo, recommendations |-> Recommendations,
                    earnings_history |-> EarningsEntries] } }
    \cup
    { [ticker |-> "CAKE", financials |-> doc, supplementary |-> supp] :
        doc \in FullDocuments \cup {MetricsDocument(EmptyDict, EmptyDict, EmptyDict)},
        supp \in SupplementaryInputs }

report_call ==
    /\ x_in # None /\ x_out = None
    /\ x_out' = Some(format_fundamentals_markdown(x_in[1].ticker, x_in[1].financials,
                                                  x_in[1].supplementary))
    /\ UNCHANGED <<gvars, x_in>>

InitReport == Idle /\ x_in \in { Some(inp) : inp \in ReportInputs } /\ x_out = None

NextReport == report_call

SpecReport == InitReport /\ [][NextReport]_vars

----------------------------------------------------------------------------
(* manage_watchlist.py *)

\* A Python string that reaches upper(), strip() or lstrip() is a sequence
\* of characters.  A character is a printable ASCII character, or the name
\* "U+" and the four to six hexadecimal digits of any other code point.

\* the Python string of a literal of printable ASCII characters
Text(literal) == [k \in 1..Len(literal) |-> SubSeq(literal, k, k)]

\* a value of a rule or of a setting as _parse_value returns it (293-307),
\* with its Python type and its text in an f-string
Value(type, text) == [type |-> type, text |-> text]

\* manage_watchlist.py:32-38: the types a rule accepts
VALID_RULES ==
    [price_movement_pct |-> {"int", "float"},
     sentiment_shift |-> {"bool"},
     social_volume_spike |-> {"bool"},
     sec_filing |-> {"bool"},
     competitive_news |-> {"bool"}]

\* isinstance(value, expected_types): a bool is an int too
IsInstance(value, expected_types) ==
    value.type \in expected_types \/ (value.type = "bool" /\ "int" \in expected_types)

\* " or ".join(t.__name__ for t in expected_types)
TypeNames(rule_name) ==
    IF rule_name = "price_movement_pct" THEN "int or float" ELSE "bool"

\* manage_watchlist.py:41
VALID_GLOBALS == {"significance_threshold", "cheap_model", "strong_model"}

\* str.lstrip(chars) for one character
RECURSIVE LStrip(_, _)
LStrip(s, ch) == IF Len(s) > 0 /\ Head(s) = ch THEN LStrip(Tail(s), ch) ELSE s

\* the characters str.upper() changes, in the order of their code points
LowerCase ==
    << "a", "b", "c", "d", "e", "f", "g", "h", "i", "j", "k", "l", "m", "n", "o", "p",
       "q", "r", "s", "t", "u", "v", "w", "x", "y", "z", "U+00B5", "U+00DF", "U+00E0",
       "U+00E1", "U+00E2", "U+00E3", "U+00E4", "U+00E5", "U+00E6", "U+00E7", "U+00E8",
       "U+00E9", "U+00EA", "U+00EB", "U+00EC", "U+00ED", "U+00EE", "U+00EF", "U+00F0",
       "U+00F1", "U+00F2", "U+00F3", "U+00F4", "U+00F5", "U+00F6", "U+00F8", "U+00F9",
       "U+00FA", "U+00FB", "U+00FC", "U+00FD", "U+00FE", "U+00FF", "U+0101", "U+0103",
       "U+0105", "U+0107", "U+0109", "U+010B", "U+010D", "U+010F", "U+0111", "U+0113",
       "U+0115", "U+0117", "U+0119", "U+011B", "U+011D", "U+011F", "U+0121", "U+0123",
       "U+0125", "U+0127", "U+0129", "U+012B", "U+012D", "U+012F", "U+0131", "U+0133",
       "U+0135", "U+0137", "U+013A", "U+013C", "U+013E", "U+0140", "U+0142", "U+0144",
       "U+0146", "U+0148", "U+0149", "U+014B", "U+014D", "U+014F", "U+0151", "U+0153",
       "U+0155", "U+0157", "U+0159", "U+015B", "U+015D", "U+015F", "U+0161", "U+0163",
       "U+0165", "U+0167", "U+0169", "U+016B", "U+016D", "U+016F", "U+0171", "U+0173",
       "U+0175", "U+0177", "U+017A", "U+017C", "U+017E", "U+017F", "U+0180", "U+0183",
       "U+0185", "U+0188", "U+018C", "U+0192", "U+0195", "U+0199", "U+019A", "U+019E",
       "U+01A1", "U+01A3", "U+01A5", "U+01A8", "U+01AD", "U+01B0", "U+01B4", "U+01B6",
       "U+01B9", "U+01BD", "U+01BF", "U+01C5", "U+01C6", "U+01C8", "U+01C9", "U+01CB",
       "U+01CC", "U+01CE", "U+01D0", "U+01D2", "U+01D4", "U+01D6", "U+01D8", "U+01DA",
       "U+01DC", "U+01DD", "U+01DF", "U+01E1", "U+01E3", "U+01E5", "U+01E7", "U+01E9",
       "U+01EB", "U+01ED", "U+01EF", "U+01F0", "U+01F2", "U+01F3", "U+01F5", "U+01F9",
       "U+01FB", "U+01FD", "U+01FF", "U+0201", "U+0203", "U+0205", "U+0207", "U+0209",
       "U+020B", "U+020D", "U+020F", "U+0211", "U+0213", "U+0215", "U+0217", "U+0219",
       "U+021B", "U+021D", "U+021F", "U+0223", "U+0225", "U+0227", "U+0229", "U+022B",
       "U+022D", "U+022F", "U+0231", "U+0233", "U+023C", "U+023F", "U+0240", "U+0242",
       "U+0247", "U+0249", "U+024B", "U+024D", "U+024F", "U+0250", "U+0251", "U+0252",
       "U+0253", "U+0254", "U+0256", "U+0257", "U+0259", "U+025B", "U+025C", "U+0260",
       "U+0261", "U+0263", "U+0265", "U+0266", "U+0268", "U+0269", "U+026A", "U+026B",
       "U+026C", "U+026F", "U+0271", "U+0272", "U+0275", "U+027D", "U+0280", "U+0282",
       "U+0283", "U+0287", "U+0288", "U+0289", "U+028A", "U+028B", "U+028C", "U+0292",
       "U+029D", "U+029E", "U+0345", "U+0371", "U+0373", "U+0377", "U+037B", "U+037C",
       "U+037D", "U+0390", "U+03AC", "U+03AD", "U+03AE", "U+03AF", "U+03B0", "U+03B1",
       "U+03B2", "U+03B3", "U+03B4", "U+03B5", "U+03B6", "U+03B7", "U+03B8", "U+03B9",
       "U+03BA", "U+03BB", "U+03BC", "U+03BD", "U+03BE", "U+03BF", "U+03C0", "U+03C1",
       "U+03C2", "U+03C3", "U+03C4", "U+03C5", "U+03C6", "U+03C7", "U+03C8", "U+03C9",
       "U+03CA", "U+03CB", "U+03CC", "U+03CD", "U+03CE", "U+03D0", "U+03D1", "U+03D5",
       "U+03D6", "U+03D7", "U+03D9", "U+03DB", "U+03DD", "U+03DF", "U+03E1", "U+03E3",
       "U+03E5", "U+03E7", "U+03E9", "U+03EB", "U+03ED", "U+03EF", "U+03F0", "U+03F1",
       "U+03F2", "U+03F3", "U+03F5", "U+03F8", "U+03FB", "U+0430", "U+0431", "U+0432",
       "U+0433", "U+0434", "U+0435", "U+0436", "U+0437", "U+0438", "U+0439", "U+043A",
       "U+043B", "U+043C", "U+043D", "U+043E", "U+043F", "U+0440", "U+0441", "U+0442",
       "U+0443", "U+0444", "U+0445", "U+0446", "U+0447", "U+0448", "U+0449", "U+044A",
       "U+044B", "U+044C", "U+044D", "U+044E", "U+044F", "U+0450", "U+0451", "U+0452",
       "U+0453", "U+0454", "U+0455", "U+0456", "U+0457", "U+0458", "U+0459", "U+045A",
       "U+045B", "U+045C", "U+045D", "U+045E", "U+045F", "U+0461", "U+0463", "U+0465",
       "U+0467", "U+0469", "U+046B", "U+046D", "U+046F", "U+0471", "U+0473", "U+0475",
       "U+0477", "U+0479", "U+047B", "U+047D", "U+047F", "U+0481", "U+048B", "U+048D",
       "U+048F", "U+0491", "U+0493", "U+0495", "U+0497", "U+0499", "U+049B", "U+049D",
       "U+049F", "U+04A1", "U+04A3", "U+04A5", "U+04A7", "U+04A9", "U+04AB", "U+04AD",
       "U+04AF", "U+04B1", "U+04B3", "U+04B5", "U+04B7", "U+04B9", "U+04BB", "U+04BD",
       "U+04BF", "U+04C2", "U+04C4", "U+04C6", "U+04C8", "U+04CA", "U+04CC", "U+04CE",
       "U+04CF", "U+04D1", "U+04D3", "U+04D5", "U+04D7", "U+04D9", "U+04DB", "U+04DD",
       "U+04DF", "U+04E1", "U+04E3", "U+04E5", "U+04E7", "U+04E9", "U+04EB", "U+04ED",
       "U+04EF", "U+04F1", "U+04F3", "U+04F5", "U+04F7", "U+04F9", "U+04FB", "U+04FD",
       "U+04FF", "U+0501", "U+0503", "U+0505", "U+0507", "U+0509", "U+050B", "U+050D",
       "U+050F", "U+0511", "U+0513", "U+0515", "U+0517", "U+0519", "U+051B", "U+051D",
       "U+051F", "U+0521", "U+0523", "U+0525", "U+0527", "U+0529", "U+052B", "U+052D",
       "U+052F", "U+0561", "U+0562", "U+0563", "U+0564", "U+0565", "U+0566", "U+0567",
       "U+0568", "U+0569", "U+056A", "U+056B", "U+056C", "U+056D", "U+056E", "U+056F",
       "U+0570", "U+0571", "U+0572", "U+0573", "U+0574", "U+0575", "U+0576", "U+0577",
       "U+0578", "U+0579", "U+057A", "U+057B", "U+057C", "U+057D", "U+057E", "U+057F",
       "U+0580", "U+0581", "U+0582", "U+0583", "U+0584", "U+0585", "U+0586", "U+0587",
       "U+10D0", "U+10D1", "U+10D2", "U+10D3", "U+10D4", "U+10D5", "U+10D6", "U+10D7",
       "U+10D8", "U+10D9", "U+10DA", "U+10DB", "U+10DC", "U+10DD", "U+10DE", "U+10DF",
       "U+10E0", "U+10E1", "U+10E2", "U+10E3", "U+10E4", "U+10E5", "U+10E6", "U+10E7",
       "U+10E8", "U+10E9", "U+10EA", "U+10EB", "U+10EC", "U+10ED", "U+10EE", "U+10EF",
       "U+10F0", "U+10F1", "U+10F2", "U+10F3", "U+10F4", "U+10F5", "U+10F6", "U+10F7",
       "U+10F8", "U+10F9", "U+10FA", "U+10FD", "U+10FE", "U+10FF", "U+13F8", "U+13F9",
       "U+13FA", "U+13FB", "U+13FC", "U+13FD", "U+1C80", "U+1C81", "U+1C82", "U+1C83",
       "U+1C84", "U+1C85", "U+1C86", "U+1C87", "U+1C88", "U+1D79", "U+1D7D", "U+1D8E",
       "U+1E01", "U+1E03", "U+1E05", "U+1E07", "U+1E09", "U+1E0B", "U+1E0D", "U+1E0F",
       "U+1E11", "U+1E13", "U+1E15", "U+1E17", "U+1E19", "U+1E1B", "U+1E1D", "U+1E1F",
       "U+1E21", "U+1E23", "U+1E25", "U+1E27", "U+1E29", "U+1E2B", "U+1E2D", "U+1E2F",
       "U+1E31", "U+1E33", "U+1E35", "U+1E37", "U+1E39", "U+1E3B", "U+1E3D", "U+1E3F",
       "U+1E41", "U+1E43", "U+1E45", "U+1E47", "U+1E49", "U+1E4B", "U+1E4D", "U+1E4F",
       "U+1E51", "U+1E53", "U+1E55", "U+1E57", "U+1E59", "U+1E5B", "U+1E5D", "U+1E5F",
       "U+1E61", "U+1E63", "U+1E65", "U+1E67", "U+1E69", "U+1E6B", "U+1E6D", "U+1E6F",
       "U+1E71", "U+1E73", "U+1E75", "U+1E77", "U+1E79", "U+1E7B", "U+1E7D", "U+1E7F",
       "U+1E81", "U+1E83", "U+1E85", "U+1E87", "U+1E89", "U+1E8B", "U+1E8D", "U+1E8F",
       "U+1E91", "U+1E93", "U+1E95", "U+1E96", "U+1E97", "U+1E98", "U+1E99", "U+1E9A",
       "U+1E9B", "U+1EA1", "U+1EA3", "U+1EA5", "U+1EA7", "U+1EA9", "U+1EAB", "U+1EAD",
       "U+1EAF", "U+1EB1", "U+1EB3", "U+1EB5", "U+1EB7", "U+1EB9", "U+1EBB", "U+1EBD",
       "U+1EBF", "U+1EC1", "U+1EC3", "U+1EC5", "U+1EC7", "U+1EC9", "U+1ECB", "U+1ECD",
       "U+1ECF", "U+1ED1", "U+1ED3", "U+1ED5", "U+1ED7", "U+1ED9", "U+1EDB", "U+1EDD",
       "U+1EDF", "U+1EE1", "U+1EE3", "U+1EE5", "U+1EE7", "U+1EE9", "U+1EEB", "U+1EED",
       "U+1EEF", "U+1EF1", "U+1EF3", "U+1EF5", "U+1EF7", "U+1EF9", "U+1EFB", "U+1EFD",
       "U+1EFF", "U+1F00", "U+1F01", "U+1F02", "U+1F03", "U+1F04", "U+1F05", "U+1F06",
       "U+1F07", "U+1F10", "U+1F11", "U+1F12", "U+1F13", "U+1F14", "U+1F15", "U+1F20",
       "U+1F21", "U+1F22", "U+1F23", "U+1F24", "U+1F25", "U+1F26", "U+1F27", "U+1F30",
       "U+1F31", "U+1F32", "U+1F33", "U+1F34", "U+1F35", "U+1F36", "U+1F37", "U+1F40",
       "U+1F41", "U+1F42", "U+1F43", "U+1F44", "U+1F45", "U+1F50", "U+1F51", "U+1F52",
       "U+1F53", "U+1F54", "U+1F55", "U+1F56", "U+1F57", "U+1F60", "U+1F61", "U+1F62",
       "U+1F63", "U+1F64", "U+1F65", "U+1F66", "U+1F67", "U+1F70", "U+1F71", "U+1F72",
       "U+1F73", "U+1F74", "U+1F75", "U+1F76", "U+1F77", "U+1F78", "U+1F79", "U+1F7A",
       "U+1F7B", "U+1F7C", "U+1F7D", "U+1F80", "U+1F81", "U+1F82", "U+1F83", "U+1F84",
       "U+1F85", "U+1F86", "U+1F87", "U+1F88", "U+1F89", "U+1F8A", "U+1F8B", "U+1F8C",
       "U+1F8D", "U+1F8E", "U+1F8F", "U+1F90", "U+1F91", "U+1F92", "U+1F93", "U+1F94",
       "U+1F95", "U+1F96", "U+1F97", "U+1F98", "U+1F99", "U+1F9A", "U+1F9B", "U+1F9C",
       "U+1F9D", "U+1F9E", "U+1F9F", "U+1FA0", "U+1FA1", "U+1FA2", "U+1FA3", "U+1FA4",
       "U+1FA5", "U+1FA6", "U+1FA7", "U+1FA8", "U+1FA9", "U+1FAA", "U+1FAB", "U+1FAC",
       "U+1FAD", "U+1FAE", "U+1FAF", "U+1FB0", "U+1FB1", "U+1FB2", "U+1FB3", "U+1FB4",
       "U+1FB6", "U+1FB7", "U+1FBC", "U+1FBE", "U+1FC2", "U+1FC3", "U+1FC4", "U+1FC6",
       "U+1FC7", "U+1FCC", "U+1FD0", "U+1FD1", "U+1FD2", "U+1FD3", "U+1FD6", "U+1FD7",
       "U+1FE0", "U+1FE1", "U+1FE2", "U+1FE3", "U+1FE4", "U+1FE5", "U+1FE6", "U+1FE7",
       "U+1FF2", "U+1FF3", "U+1FF4", "U+1FF6", "U+1FF7", "U+1FFC", "U+214E", "U+2170",
       "U+2171", "U+2172", "U+2173", "U+2174", "U+2175", "U+2176", "U+2177", "U+2178",
       "U+2179", "U+217A", "U+217B", "U+217C", "U+217D", "U+217E", "U+217F", "U+2184",
       "U+24D0", "U+24D1", "U+24D2", "U+24D3", "U+24D4", "U+24D5", "U+24D6", "U+24D7",
       "U+24D8", "U+24D9", "U+24DA", "U+24DB", "U+24DC", "U+24DD", "U+24DE", "U+24DF",
       "U+24E0", "U+24E1", "U+24E2", "U+24E3", "U+24E4", "U+24E5", "U+24E6", "U+24E7",
       "U+24E8", "U+24E9", "U+2C30", "U+2C31", "U+2C32", "U+2C33", "U+2C34", "U+2C35",
       "U+2C36", "U+2C37", "U+2C38", "U+2C39", "U+2C3A", "U+2C3B", "U+2C3C", "U+2C3D",
       "U+2C3E", "U+2C3F", "U+2C40", "U+2C41", "U+2C42", "U+2C43", "U+2C44", "U+2C45",
       "U+2C46", "U+2C47", "U+2C48", "U+2C49", "U+2C4A", "U+2C4B", "U+2C4C", "U+2C4D",
       "U+2C4E", "U+2C4F", "U+2C50", "U+2C51", "U+2C52", "U+2C53", "U+2C54", "U+2C55",
       "U+2C56", "U+2C57", "U+2C58", "U+2C59", "U+2C5A", "U+2C5B", "U+2C5C", "U+2C5D",
       "U+2C5E", "U+2C5F", "U+2C61", "U+2C65", "U+2C66", "U+2C68", "U+2C6A", "U+2C6C",
       "U+2C73", "U+2C76", "U+2C81", "U+2C83", "U+2C85", "U+2C87", "U+2C89", "U+2C8B",
       "U+2C8D", "U+2C8F", "U+2C91", "U+2C93", "U+2C95", "U+2C97", "U+2C99", "U+2C9B",
       "U+2C9D", "U+2C9F", "U+2CA1", "U+2CA3", "U+2CA5", "U+2CA7", "U+2CA9", "U+2CAB",
       "U+2CAD", "U+2CAF", "U+2CB1", "U+2CB3", "U+2CB5", "U+2CB7", "U+2CB9", "U+2CBB",
       "U+2CBD", "U+2CBF", "U+2CC1", "U+2CC3", "U+2CC5", "U+2CC7", "U+2CC9", "U+2CCB",
       "U+2CCD", "U+2CCF", "U+2CD1", "U+2CD3", "U+2CD5", "U+2CD7", "U+2CD9", "U+2CDB",
       "U+2CDD", "U+2CDF", "U+2CE1", "U+2CE3", "U+2CEC", "U+2CEE", "U+2CF3", "U+2D00",
       "U+2D01", "U+2D02", "U+2D03", "U+2D04", "U+2D05", "U+2D06", "U+2D07", "U+2D08",
       "U+2D09", "U+2D0A", "U+2D0B", "U+2D0C", "U+2D0D", "U+2D0E", "U+2D0F", "U+2D10",
       "U+2D11", "U+2D12", "U+2D13", "U+2D14", "U+2D15", "U+2D16", "U+2D17", "U+2D18",
       "U+2D19", "U+2D1A", "U+2D1B", "U+2D1C", "U+2D1D", "U+2D1E", "U+2D1F", "U+2D20",
       "U+2D21", "U+2D22", "U+2D23", "U+2D24", "U+2D25", "U+2D27", "U+2D2D", "U+A641",
       "U+A643", "U+A645", "U+A647", "U+A649", "U+A64B", "U+A64D", "U+A64F", "U+A651",
       "U+A653", "U+A655", "U+A657", "U+A659", "U+A65B", "U+A65D", "U+A65F", "U+A661",
       "U+A663", "U+A665", "U+A667", "U+A669", "U+A66B", "U+A66D", "U+A681", "U+A683",
       "U+A685", "U+A687", "U+A689", "U+A68B", "U+A68D", "U+A68F", "U+A691", "U+A693",
       "U+A695", "U+A697", "U+A699", "U+A69B", "U+A723", "U+A725", "U+A727", "U+A729",
       "U+A72B", "U+A72D", "U+A72F", "U+A733", "U+A735", "U+A737", "U+A739", "U+A73B",
       "U+A73D", "U+A73F", "U+A741", "U+A743", "U+A745", "U+A747", "U+A749", "U+A74B",
       "U+A74D", "U+A74F", "U+A751", "U+A753", "U+A755", "U+A757", "U+A759", "U+A75B",
       "U+A75D", "U+A75F", "U+A761", "U+A763", "U+A765", "U+A767", "U+A769", "U+A76B",
       "U+A76D", "U+A76F", "U+A77A", "U+A77C", "U+A77F", "U+A781", "U+A783", "U+A785",
       "U+A787", "U+A78C", "U+A791", "U+A793", "U+A794", "U+A797", "U+A799", "U+A79B",
       "U+A79D", "U+A79F", "U+A7A1", "U+A7A3", "U+A7A5", "U+A7A7", "U+A7A9", "U+A7B5",
       "U+A7B7", "U+A7B9", "U+A7BB", "U+A7BD", "U+A7BF", "U+A7C1", "U+A7C3", "U+A7C8",
       "U+A7CA", "U+A7D1", "U+A7D7", "U+A7D9", "U+A7F6", "U+AB53", "U+AB70", "U+AB71",
       "U+AB72", "U+AB73", "U+AB74", "U+AB75", "U+AB76", "U+AB77", "U+AB78", "U+AB79",
       "U+AB7A", "U+AB7B", "U+AB7C", "U+AB7D", "U+AB7E", "U+AB7F", "U+AB80", "U+AB81",
       "U+AB82", "U+AB83", "U+AB84", "U+AB85", "U+AB86", "U+AB87", "U+AB88", "U+AB89",
       "U+AB8A", "U+AB8B", "U+AB8C", "U+AB8D", "U+AB8E", "U+AB8F", "U+AB90", "U+AB91",
       "U+AB92", "U+AB93", "U+AB94", "U+AB95", "U+AB96", "U+AB97", "U+AB98", "U+AB99",
       "U+AB9A", "U+AB9B", "U+AB9C", "U+AB9D", "U+AB9E", "U+AB9F", "U+ABA0", "U+ABA1",
       "U+ABA2", "U+ABA3", "U+ABA4", "U+ABA5", "U+ABA6", "U+ABA7", "U+ABA8", "U+ABA9",
       "U+ABAA", "U+ABAB", "U+ABAC", "U+ABAD", "U+ABAE", "U+ABAF", "U+ABB0", "U+ABB1",
       "U+ABB2", "U+ABB3", "U+ABB4", "U+ABB5", "U+ABB6", "U+ABB7", "U+ABB8", "U+ABB9",
       "U+ABBA", "U+ABBB", "U+ABBC", "U+ABBD", "U+ABBE", "U+ABBF", "U+FB00", "U+FB01",
       "U+FB02", "U+FB03", "U+FB04", "U+FB05", "U+FB06", "U+FB13", "U+FB14", "U+FB15",
       "U+FB16", "U+FB17", "U+FF41", "U+FF42", "U+FF43", "U+FF44", "U+FF45", "U+FF46",
       "U+FF47", "U+FF48", "U+FF49", "U+FF4A", "U+FF4B", "U+FF4C", "U+FF4D", "U+FF4E",
       "U+FF4F", "U+FF50", "U+FF51", "U+FF52", "U+FF53", "U+FF54", "U+FF55", "U+FF56",
       "U+FF57", "U+FF58", "U+FF59", "U+FF5A", "U+10428", "U+10429", "U+1042A",
       "U+1042B", "U+1042C", "U+1042D", "U+1042E", "U+1042F", "U+10430", "U+10431",
       "U+10432", "U+10433", "U+10434", "U+10435", "U+10436", "U+10437", "U+10438",
       "U+10439", "U+1043A", "U+1043B", "U+1043C", "U+1043D", "U+1043E", "U+1043F",
       "U+10440", "U+10441", "U+10442", "U+10443", "U+10444", "U+10445", "U+10446",
       "U+10447", "U+10448", "U+10449", "U+1044A", "U+1044B", "U+1044C", "U+1044D",
       "U+1044E", "U+1044F", "U+104D8", "U+104D9", "U+104DA", "U+104DB", "U+104DC",
       "U+104DD", "U+104DE", "U+104DF", "U+104E0", "U+104E1", "U+104E2", "U+104E3",
       "U+104E4", "U+104E5", "U+104E6", "U+104E7", "U+104E8", "U+104E9", "U+104EA",
       "U+104EB", "U+104EC", "U+104ED", "U+104EE", "U+104EF", "U+104F0", "U+104F1",
       "U+104F2", "U+104F3", "U+104F4", "U+104F5", "U+104F6", "U+104F7", "U+104F8",
       "U+104F9", "U+104FA", "U+104FB", "U+10597", "U+10598", "U+10599", "U+1059A",
       "U+1059B", "U+1059C", "U+1059D", "U+1059E", "U+1059F", "U+105A0", "U+105A1",
       "U+105A3", "U+105A4", "U+105A5", "U+105A6", "U+105A7", "U+105A8", "U+105A9",
       "U+105AA", "U+105AB", "U+105AC", "U+105AD", "U+105AE", "U+105AF", "U+105B0",
       "U+105B1", "U+105B3", "U+105B4", "U+105B5", "U+105B6", "U+105B7", "U+105B8",
       "U+105B9", "U+105BB", "U+105BC", "U+10CC0", "U+10CC1", "U+10CC2", "U+10CC3",
       "U+10CC4", "U+10CC5", "U+10CC6", "U+10CC7", "U+10CC8", "U+10CC9", "U+10CCA",
       "U+10CCB", "U+10CCC", "U+10CCD", "U+10CCE", "U+10CCF", "U+10CD0", "U+10CD1",
       "U+10CD2", "U+10CD3", "U+10CD4", "U+10CD5", "U+10CD6", "U+10CD7", "U+10CD8",
       "U+10CD9", "U+10CDA", "U+10CDB", "U+10CDC", "U+10CDD", "U+10CDE", "U+10CDF",
       "U+10CE0", "U+10CE1", "U+10CE2", "U+10CE3", "U+10CE4", "U+10CE5", "U+10CE6",
       "U+10CE7", "U+10CE8", "U+10CE9", "U+10CEA", "U+10CEB", "U+10CEC", "U+10CED",
       "U+10CEE", "U+10CEF", "U+10CF0", "U+10CF1", "U+10CF2", "U+118C0", "U+118C1",
       "U+118C2", "U+118C3", "U+118C4", "U+118C5", "U+118C6", "U+118C7", "U+118C8",
       "U+118C9", "U+118CA", "U+118CB", "U+118CC", "U+118CD", "U+118CE", "U+118CF",
       "U+118D0", "U+118D1", "U+118D2", "U+118D3", "U+118D4", "U+118D5", "U+118D6",
       "U+118D7", "U+118D8", "U+118D9", "U+118DA", "U+118DB", "U+118DC", "U+118DD",
       "U+118DE", "U+118DF", "U+16E60", "U+16E61", "U+16E62", "U+16E63", "U+16E64",
       "U+16E65", "U+16E66", "U+16E67", "U+16E68", "U+16E69", "U+16E6A", "U+16E6B",
       "U+16E6C", "U+16E6D", "U+16E6E", "U+16E6F", "U+16E70", "U+16E71", "U+16E72",
       "U+16E73", "U+16E74", "U+16E75", "U+16E76", "U+16E77", "U+16E78", "U+16E79",
       "U+16E7A", "U+16E7B", "U+16E7C", "U+16E7D", "U+16E7E", "U+16E7F", "U+1E922",
       "U+1E923", "U+1E924", "U+1E925", "U+1E926", "U+1E927", "U+1E928", "U+1E929",
       "U+1E92A", "U+1E92B", "U+1E92C", "U+1E92D", "U+1E92E", "U+1E92F", "U+1E930",
       "U+1E931", "U+1E932", "U+1E933", "U+1E934", "U+1E935", "U+1E936", "U+1E937",
       "U+1E938", "U+1E939", "U+1E93A", "U+1E93B", "U+1E93C", "U+1E93D", "U+1E93E",
       "U+1E93F", "U+1E940", "U+1E941", "U+1E942", "U+1E943" >>

\* at the same place, the characters str.upper() changes them into: one
\* character, or two or three (the sharp s becomes "SS")
UpperCase ==
    << <<"A">>, <<"B">>, <<"C">>, <<"D">>, <<"E">>, <<"F">>, <<"G">>, <<"H">>, <<"I">>,
       <<"J">>, <<"K">>, <<"L">>, <<"M">>, <<"N">>, <<"O">>, <<"P">>, <<"Q">>, <<"R">>,
       <<"S">>, <<"T">>, <<"U">>, <<"V">>, <<"W">>, <<"X">>, <<"Y">>, <<"Z">>,
       <<"U+039C">>, <<"S", "S">>, <<"U+00C0">>, <<"U+00C1">>, <<"U+00C2">>,
       <<"U+00C3">>, <<"U+00C4">>, <<"U+00C5">>, <<"U+00C6">>, <<"U+00C7">>,
       <<"U+00C8">>, <<"U+00C9">>, <<"U+00CA">>, <<"U+00CB">>, <<"U+00CC">>,
       <<"U+00CD">>, <<"U+00CE">>, <<"U+00CF">>, <<"U+00D0">>, <<"U+00D1">>,
       <<"U+00D2">>, <<"U+00D3">>, <<"U+00D4">>, <<"U+00D5">>, <<"U+00D6">>,
       <<"U+00D8">>, <<"U+00D9">>, <<"U+00DA">>, <<"U+00DB">>, <<"U+00DC">>,
       <<"U+00DD">>, <<"U+00DE">>, <<"U+0178">>, <<"U+0100">>, <<"U+0102">>,
       <<"U+0104">>, <<"U+0106">>, <<"U+0108">>, <<"U+010A">>, <<"U+010C">>,
       <<"U+010E">>, <<"U+0110">>, <<"U+0112">>, <<"U+0114">>, <<"U+0116">>,
       <<"U+0118">>, <<"U+011A">>, <<"U+011C">>, <<"U+011E">>, <<"U+0120">>,
       <<"U+0122">>, <<"U+0124">>, <<"U+0126">>, <<"U+0128">>, <<"U+012A">>,
       <<"U+012C">>, <<"U+012E">>, <<"I">>, <<"U+0132">>, <<"U+0134">>, <<"U+0136">>,
       <<"U+0139">>, <<"U+013B">>, <<"U+013D">>, <<"U+013F">>, <<"U+0141">>,
       <<"U+0143">>, <<"U+0145">>, <<"U+0147">>, <<"U+02BC", "N">>, <<"U+014A">>,
       <<"U+014C">>, <<"U+014E">>, <<"U+0150">>, <<"U+0152">>, <<"U+0154">>,
       <<"U+0156">>, <<"U+0158">>, <<"U+015A">>, <<"U+015C">>, <<"U+015E">>,
       <<"U+0160">>, <<"U+0162">>, <<"U+0164">>, <<"U+0166">>, <<"U+0168">>,
       <<"U+016A">>, <<"U+016C">>, <<"U+016E">>, <<"U+0170">>, <<"U+0172">>,
       <<"U+0174">>, <<"U+0176">>, <<"U+0179">>, <<"U+017B">>, <<"U+017D">>, <<"S">>,
       <<"U+0243">>, <<"U+0182">>, <<"U+0184">>, <<"U+0187">>, <<"U+018B">>,
       <<"U+0191">>, <<"U+01F6">>, <<"U+0198">>, <<"U+023D">>, <<"U+0220">>,
       <<"U+01A0">>, <<"U+01A2">>, <<"U+01A4">>, <<"U+01A7">>, <<"U+01AC">>,
       <<"U+01AF">>, <<"U+01B3">>, <<"U+01B5">>, <<"U+01B8">>, <<"U+01BC">>,
       <<"U+01F7">>, <<"U+01C4">>, <<"U+01C4">>, <<"U+01C7">>, <<"U+01C7">>,
       <<"U+01CA">>, <<"U+01CA">>, <<"U+01CD">>, <<"U+01CF">>, <<"U+01D1">>,
       <<"U+01D3">>, <<"U+01D5">>, <<"U+01D7">>, <<"U+01D9">>, <<"U+01DB">>,
       <<"U+018E">>, <<"U+01DE">>, <<"U+01E0">>, <<"U+01E2">>, <<"U+01E4">>,
       <<"U+01E6">>, <<"U+01E8">>, <<"U+01EA">>, <<"U+01EC">>, <<"U+01EE">>,
       <<"J", "U+030C">>, <<"U+01F1">>, <<"U+01F1">>, <<"U+01F4">>, <<"U+01F8">>,
       <<"U+01FA">>, <<"U+01FC">>, <<"U+01FE">>, <<"U+0200">>, <<"U+0202">>,
       <<"U+0204">>, <<"U+0206">>, <<"U+0208">>, <<"U+020A">>, <<"U+020C">>,
       <<"U+020E">>, <<"U+0210">>, <<"U+0212">>, <<"U+0214">>, <<"U+0216">>,
       <<"U+0218">>, <<"U+021A">>, <<"U+021C">>, <<"U+021E">>, <<"U+0222">>,
       <<"U+0224">>, <<"U+0226">>, <<"U+0228">>, <<"U+022A">>, <<"U+022C">>,
       <<"U+022E">>, <<"U+0230">>, <<"U+0232">>, <<"U+023B">>, <<"U+2C7E">>,
       <<"U+2C7F">>, <<"U+0241">>, <<"U+0246">>, <<"U+0248">>, <<"U+024A">>,
       <<"U+024C">>, <<"U+024E">>, <<"U+2C6F">>, <<"U+2C6D">>, <<"U+2C70">>,
       <<"U+0181">>, <<"U+0186">>, <<"U+0189">>, <<"U+018A">>, <<"U+018F">>,
       <<"U+0190">>, <<"U+A7AB">>, <<"U+0193">>, <<"U+A7AC">>, <<"U+0194">>,
       <<"U+A78D">>, <<"U+A7AA">>, <<"U+0197">>, <<"U+0196">>, <<"U+A7AE">>,
       <<"U+2C62">>, <<"U+A7AD">>, <<"U+019C">>, <<"U+2C6E">>, <<"U+019D">>,
       <<"U+019F">>, <<"U+2C64">>, <<"U+01A6">>, <<"U+A7C5">>, <<"U+01A9">>,
       <<"U+A7B1">>, <<"U+01AE">>, <<"U+0244">>, <<"U+01B1">>, <<"U+01B2">>,
       <<"U+0245">>, <<"U+01B7">>, <<"U+A7B2">>, <<"U+A7B0">>, <<"U+0399">>,
       <<"U+0370">>, <<"U+0372">>, <<"U+0376">>, <<"U+03FD">>, <<"U+03FE">>,
       <<"U+03FF">>, <<"U+0399", "U+0308", "U+0301">>, <<"U+0386">>, <<"U+0388">>,
       <<"U+0389">>, <<"U+038A">>, <<"U+03A5", "U+0308", "U+0301">>, <<"U+0391">>,
       <<"U+0392">>, <<"U+0393">>, <<"U+0394">>, <<"U+0395">>, <<"U+0396">>,
       <<"U+0397">>, <<"U+0398">>, <<"U+0399">>, <<"U+039A">>, <<"U+039B">>,
       <<"U+039C">>, <<"U+039D">>, <<"U+039E">>, <<"U+039F">>, <<"U+03A0">>,
       <<"U+03A1">>, <<"U+03A3">>, <<"U+03A3">>, <<"U+03A4">>, <<"U+03A5">>,
       <<"U+03A6">>, <<"U+03A7">>, <<"U+03A8">>, <<"U+03A9">>, <<"U+03AA">>,
       <<"U+03AB">>, <<"U+038C">>, <<"U+038E">>, <<"U+038F">>, <<"U+0392">>,
       <<"U+0398">>, <<"U+03A6">>, <<"U+03A0">>, <<"U+03CF">>, <<"U+03D8">>,
       <<"U+03DA">>, <<"U+03DC">>, <<"U+03DE">>, <<"U+03E0">>, <<"U+03E2">>,
       <<"U+03E4">>, <<"U+03E6">>, <<"U+03E8">>, <<"U+03EA">>, <<"U+03EC">>,
       <<"U+03EE">>, <<"U+039A">>, <<"U+03A1">>, <<"U+03F9">>, <<"U+037F">>,
       <<"U+0395">>, <<"U+03F7">>, <<"U+03FA">>, <<"U+0410">>, <<"U+0411">>,
       <<"U+0412">>, <<"U+0413">>, <<"U+0414">>, <<"U+0415">>, <<"U+0416">>,
       <<"U+0417">>, <<"U+0418">>, <<"U+0419">>, <<"U+041A">>, <<"U+041B">>,
       <<"U+041C">>, <<"U+041D">>, <<"U+041E">>, <<"U+041F">>, <<"U+0420">>,
       <<"U+0421">>, <<"U+0422">>, <<"U+0423">>, <<"U+0424">>, <<"U+0425">>,
       <<"U+0426">>, <<"U+0427">>, <<"U+0428">>, <<"U+0429">>, <<"U+042A">>,
       <<"U+042B">>, <<"U+042C">>, <<"U+042D">>, <<"U+042E">>, <<"U+042F">>,
       <<"U+0400">>, <<"U+0401">>, <<"U+0402">>, <<"U+0403">>, <<"U+0404">>,
       <<"U+0405">>, <<"U+0406">>, <<"U+0407">>, <<"U+0408">>, <<"U+0409">>,
       <<"U+040A">>, <<"U+040B">>, <<"U+040C">>, <<"U+040D">>, <<"U+040E">>,
       <<"U+040F">>, <<"U+0460">>, <<"U+0462">>, <<"U+0464">>, <<"U+0466">>,
       <<"U+0468">>, <<"U+046A">>, <<"U+046C">>, <<"U+046E">>, <<"U+0470">>,
       <<"U+0472">>, <<"U+0474">>, <<"U+0476">>, <<"U+0478">>, <<"U+047A">>,
       <<"U+047C">>, <<"U+047E">>, <<"U+0480">>, <<"U+048A">>, <<"U+048C">>,
       <<"U+048E">>, <<"U+0490">>, <<"U+0492">>, <<"U+0494">>, <<"U+0496">>,
       <<"U+0498">>, <<"U+049A">>, <<"U+049C">>, <<"U+049E">>, <<"U+04A0">>,
       <<"U+04A2">>, <<"U+04A4">>, <<"U+04A6">>, <<"U+04A8">>, <<"U+04AA">>,
       <<"U+04AC">>, <<"U+04AE">>, <<"U+04B0">>, <<"U+04B2">>, <<"U+04B4">>,
       <<"U+04B6">>, <<"U+04B8">>, <<"U+04BA">>, <<"U+04BC">>, <<"U+04BE">>,
       <<"U+04C1">>, <<"U+04C3">>, <<"U+04C5">>, <<"U+04C7">>, <<"U+04C9">>,
       <<"U+04CB">>, <<"U+04CD">>, <<"U+04C0">>, <<"U+04D0">>, <<"U+04D2">>,
       <<"U+04D4">>, <<"U+04D6">>, <<"U+04D8">>, <<"U+04DA">>, <<"U+04DC">>,
       <<"U+04DE">>, <<"U+04E0">>, <<"U+04E2">>, <<"U+04E4">>, <<"U+04E6">>,
       <<"U+04E8">>, <<"U+04EA">>, <<"U+04EC">>, <<"U+04EE">>, <<"U+04F0">>,
       <<"U+04F2">>, <<"U+04F4">>, <<"U+04F6">>, <<"U+04F8">>, <<"U+04FA">>,
       <<"U+04FC">>, <<"U+04FE">>, <<"U+0500">>, <<"U+0502">>, <<"U+0504">>,
       <<"U+0506">>, <<"U+0508">>, <<"U+050A">>, <<"U+050C">>, <<"U+050E">>,
       <<"U+0510">>, <<"U+0512">>, <<"U+0514">>, <<"U+0516">>, <<"U+0518">>,
       <<"U+051A">>, <<"U+051C">>, <<"U+051E">>, <<"U+0520">>, <<"U+0522">>,
       <<"U+0524">>, <<"U+0526">>, <<"U+0528">>, <<"U+052A">>, <<"U+052C">>,
       <<"U+052E">>, <<"U+0531">>, <<"U+0532">>, <<"U+0533">>, <<"U+0534">>,
       <<"U+0535">>, <<"U+0536">>, <<"U+0537">>, <<"U+0538">>, <<"U+0539">>,
       <<"U+053A">>, <<"U+053B">>, <<"U+053C">>, <<"U+053D">>, <<"U+053E">>,
       <<"U+053F">>, <<"U+0540">>, <<"U+0541">>, <<"U+0542">>, <<"U+0543">>,
       <<"U+0544">>, <<"U+0545">>, <<"U+0546">>, <<"U+0547">>, <<"U+0548">>,
       <<"U+0549">>, <<"U+054A">>, <<"U+054B">>, <<"U+054C">>, <<"U+054D">>,
       <<"U+054E">>, <<"U+054F">>, <<"U+0550">>, <<"U+0551">>, <<"U+0552">>,
       <<"U+0553">>, <<"U+0554">>, <<"U+0555">>, <<"U+0556">>, <<"U+0535", "U+0552">>,
       <<"U+1C90">>, <<"U+1C91">>, <<"U+1C92">>, <<"U+1C93">>, <<"U+1C94">>,
       <<"U+1C95">>, <<"U+1C96">>, <<"U+1C97">>, <<"U+1C98">>, <<"U+1C99">>,
       <<"U+1C9A">>, <<"U+1C9B">>, <<"U+1C9C">>, <<"U+1C9D">>, <<"U+1C9E">>,
       <<"U+1C9F">>, <<"U+1CA0">>, <<"U+1CA1">>, <<"U+1CA2">>, <<"U+1CA3">>,
       <<"U+1CA4">>, <<"U+1CA5">>, <<"U+1CA6">>, <<"U+1CA7">>, <<"U+1CA8">>,
       <<"U+1CA9">>, <<"U+1CAA">>, <<"U+1CAB">>, <<"U+1CAC">>, <<"U+1CAD">>,
       <<"U+1CAE">>, <<"U+1CAF">>, <<"U+1CB0">>, <<"U+1CB1">>, <<"U+1CB2">>,
       <<"U+1CB3">>, <<"U+1CB4">>, <<"U+1CB5">>, <<"U+1CB6">>, <<"U+1CB7">>,
       <<"U+1CB8">>, <<"U+1CB9">>, <<"U+1CBA">>, <<"U+1CBD">>, <<"U+1CBE">>,
       <<"U+1CBF">>, <<"U+13F0">>, <<"U+13F1">>, <<"U+13F2">>, <<"U+13F3">>,
       <<"U+13F4">>, <<"U+13F5">>, <<"U+0412">>, <<"U+0414">>, <<"U+041E">>,
       <<"U+0421">>, <<"U+0422">>, <<"U+0422">>, <<"U+042A">>, <<"U+0462">>,
       <<"U+A64A">>, <<"U+A77D">>, <<"U+2C63">>, <<"U+A7C6">>, <<"U+1E00">>,
       <<"U+1E02">>, <<"U+1E04">>, <<"U+1E06">>, <<"U+1E08">>, <<"U+1E0A">>,
       <<"U+1E0C">>, <<"U+1E0E">>, <<"U+1E10">>, <<"U+1E12">>, <<"U+1E14">>,
       <<"U+1E16">>, <<"U+1E18">>, <<"U+1E1A">>, <<"U+1E1C">>, <<"U+1E1E">>,
       <<"U+1E20">>, <<"U+1E22">>, <<"U+1E24">>, <<"U+1E26">>, <<"U+1E28">>,
       <<"U+1E2A">>, <<"U+1E2C">>, <<"U+1E2E">>, <<"U+1E30">>, <<"U+1E32">>,
       <<"U+1E34">>, <<"U+1E36">>, <<"U+1E38">>, <<"U+1E3A">>, <<"U+1E3C">>,
       <<"U+1E3E">>, <<"U+1E40">>, <<"U+1E42">>, <<"U+1E44">>, <<"U+1E46">>,
       <<"U+1E48">>, <<"U+1E4A">>, <<"U+1E4C">>, <<"U+1E4E">>, <<"U+1E50">>,
       <<"U+1E52">>, <<"U+1E54">>, <<"U+1E56">>, <<"U+1E58">>, <<"U+1E5A">>,
       <<"U+1E5C">>, <<"U+1E5E">>, <<"U+1E60">>, <<"U+1E62">>, <<"U+1E64">>,
       <<"U+1E66">>, <<"U+1E68">>, <<"U+1E6A">>, <<"U+1E6C">>, <<"U+1E6E">>,
       <<"U+1E70">>, <<"U+1E72">>, <<"U+1E74">>, <<"U+1E76">>, <<"U+1E78">>,
       <<"U+1E7A">>, <<"U+1E7C">>, <<"U+1E7E">>, <<"U+1E80">>, <<"U+1E82">>,
       <<"U+1E84">>, <<"U+1E86">>, <<"U+1E88">>, <<"U+1E8A">>, <<"U+1E8C">>,
       <<"U+1E8E">>, <<"U+1E90">>, <<"U+1E92">>, <<"U+1E94">>, <<"H", "U+0331">>,
       <<"T", "U+0308">>, <<"W", "U+030A">>, <<"Y", "U+030A">>, <<"A", "U+02BE">>,
       <<"U+1E60">>, <<"U+1EA0">>, <<"U+1EA2">>, <<"U+1EA4">>, <<"U+1EA6">>,
       <<"U+1EA8">>, <<"U+1EAA">>, <<"U+1EAC">>, <<"U+1EAE">>, <<"U+1EB0">>,
       <<"U+1EB2">>, <<"U+1EB4">>, <<"U+1EB6">>, <<"U+1EB8">>, <<"U+1EBA">>,
       <<"U+1EBC">>, <<"U+1EBE">>, <<"U+1EC0">>, <<"U+1EC2">>, <<"U+1EC4">>,
       <<"U+1EC6">>, <<"U+1EC8">>, <<"U+1ECA">>, <<"U+1ECC">>, <<"U+1ECE">>,
       <<"U+1ED0">>, <<"U+1ED2">>, <<"U+1ED4">>, <<"U+1ED6">>, <<"U+1ED8">>,
       <<"U+1EDA">>, <<"U+1EDC">>, <<"U+1EDE">>, <<"U+1EE0">>, <<"U+1EE2">>,
       <<"U+1EE4">>, <<"U+1EE6">>, <<"U+1EE8">>, <<"U+1EEA">>, <<"U+1EEC">>,
       <<"U+1EEE">>, <<"U+1EF0">>, <<"U+1EF2">>, <<"U+1EF4">>, <<"U+1EF6">>,
       <<"U+1EF8">>, <<"U+1EFA">>, <<"U+1EFC">>, <<"U+1EFE">>, <<"U+1F08">>,
       <<"U+1F09">>, <<"U+1F0A">>, <<"U+1F0B">>, <<"U+1F0C">>, <<"U+1F0D">>,
       <<"U+1F0E">>, <<"U+1F0F">>, <<"U+1F18">>, <<"U+1F19">>, <<"U+1F1A">>,
       <<"U+1F1B">>, <<"U+1F1C">>, <<"U+1F1D">>, <<"U+1F28">>, <<"U+1F29">>,
       <<"U+1F2A">>, <<"U+1F2B">>, <<"U+1F2C">>, <<"U+1F2D">>, <<"U+1F2E">>,
       <<"U+1F2F">>, <<"U+1F38">>, <<"U+1F39">>, <<"U+1F3A">>, <<"U+1F3B">>,
       <<"U+1F3C">>, <<"U+1F3D">>, <<"U+1F3E">>, <<"U+1F3F">>, <<"U+1F48">>,
       <<"U+1F49">>, <<"U+1F4A">>, <<"U+1F4B">>, <<"U+1F4C">>, <<"U+1F4D">>,
       <<"U+03A5", "U+0313">>, <<"U+1F59">>, <<"U+03A5", "U+0313", "U+0300">>,
       <<"U+1F5B">>, <<"U+03A5", "U+0313", "U+0301">>, <<"U+1F5D">>,
       <<"U+03A5", "U+0313", "U+0342">>, <<"U+1F5F">>, <<"U+1F68">>, <<"U+1F69">>,
       <<"U+1F6A">>, <<"U+1F6B">>, <<"U+1F6C">>, <<"U+1F6D">>, <<"U+1F6E">>,
       <<"U+1F6F">>, <<"U+1FBA">>, <<"U+1FBB">>, <<"U+1FC8">>, <<"U+1FC9">>,
       <<"U+1FCA">>, <<"U+1FCB">>, <<"U+1FDA">>, <<"U+1FDB">>, <<"U+1FF8">>,
       <<"U+1FF9">>, <<"U+1FEA">>, <<"U+1FEB">>, <<"U+1FFA">>, <<"U+1FFB">>,
       <<"U+1F08", "U+0399">>, <<"U+1F09", "U+0399">>, <<"U+1F0A", "U+0399">>,
       <<"U+1F0B", "U+0399">>, <<"U+1F0C", "U+0399">>, <<"U+1F0D", "U+0399">>,
       <<"U+1F0E", "U+0399">>, <<"U+1F0F", "U+0399">>, <<"U+1F08", "U+0399">>,
       <<"U+1F09", "U+0399">>, <<"U+1F0A", "U+0399">>, <<"U+1F0B", "U+0399">>,
       <<"U+1F0C", "U+0399">>, <<"U+1F0D", "U+0399">>, <<"U+1F0E", "U+0399">>,
       <<"U+1F0F", "U+0399">>, <<"U+1F28", "U+0399">>, <<"U+1F29", "U+0399">>,
       <<"U+1F2A", "U+0399">>, <<"U+1F2B", "U+0399">>, <<"U+1F2C", "U+0399">>,
       <<"U+1F2D", "U+0399">>, <<"U+1F2E", "U+0399">>, <<"U+1F2F", "U+0399">>,
       <<"U+1F28", "U+0399">>, <<"U+1F29", "U+0399">>, <<"U+1F2A", "U+0399">>,
       <<"U+1F2B", "U+0399">>, <<"U+1F2C", "U+0399">>, <<"U+1F2D", "U+0399">>,
       <<"U+1F2E", "U+0399">>, <<"U+1F2F", "U+0399">>, <<"U+1F68", "U+0399">>,
       <<"U+1F69", "U+0399">>, <<"U+1F6A", "U+0399">>, <<"U+1F6B", "U+0399">>,
       <<"U+1F6C", "U+0399">>, <<"U+1F6D", "U+0399">>, <<"U+1F6E", "U+0399">>,
       <<"U+1F6F", "U+0399">>, <<"U+1F68", "U+0399">>, <<"U+1F69", "U+0399">>,
       <<"U+1F6A", "U+0399">>, <<"U+1F6B", "U+0399">>, <<"U+1F6C", "U+0399">>,
       <<"U+1F6D", "U+0399">>, <<"U+1F6E", "U+0399">>, <<"U+1F6F", "U+0399">>,
       <<"U+1FB8">>, <<"U+1FB9">>, <<"U+1FBA", "U+0399">>, <<"U+0391", "U+0399">>,
       <<"U+0386", "U+0399">>, <<"U+0391", "U+0342">>, <<"U+0391", "U+0342", "U+0399">>,
       <<"U+0391", "U+0399">>, <<"U+0399">>, <<"U+1FCA", "U+0399">>,
       <<"U+0397", "U+0399">>, <<"U+0389", "U+0399">>, <<"U+0397", "U+0342">>,
       <<"U+0397", "U+0342", "U+0399">>, <<"U+0397", "U+0399">>, <<"U+1FD8">>,
       <<"U+1FD9">>, <<"U+0399", "U+0308", "U+0300">>, <<"U+0399", "U+0308", "U+0301">>,
       <<"U+0399", "U+0342">>, <<"U+0399", "U+0308", "U+0342">>, <<"U+1FE8">>,
       <<"U+1FE9">>, <<"U+03A5", "U+0308", "U+0300">>, <<"U+03A5", "U+0308", "U+0301">>,
       <<"U+03A1", "U+0313">>, <<"U+1FEC">>, <<"U+03A5", "U+0342">>,
       <<"U+03A5", "U+0308", "U+0342">>, <<"U+1FFA", "U+0399">>, <<"U+03A9", "U+0399">>,
       <<"U+038F", "U+0399">>, <<"U+03A9", "U+0342">>, <<"U+03A9", "U+0342", "U+0399">>,
       <<"U+03A9", "U+0399">>, <<"U+2132">>, <<"U+2160">>, <<"U+2161">>, <<"U+2162">>,
       <<"U+2163">>, <<"U+2164">>, <<"U+2165">>, <<"U+2166">>, <<"U+2167">>,
       <<"U+2168">>, <<"U+2169">>, <<"U+216A">>, <<"U+216B">>, <<"U+216C">>,
       <<"U+216D">>, <<"U+216E">>, <<"U+216F">>, <<"U+2183">>, <<"U+24B6">>,
       <<"U+24B7">>, <<"U+24B8">>, <<"U+24B9">>, <<"U+24BA">>, <<"U+24BB">>,
       <<"U+24BC">>, <<"U+24BD">>, <<"U+24BE">>, <<"U+24BF">>, <<"U+24C0">>,
       <<"U+24C1">>, <<"U+24C2">>, <<"U+24C3">>, <<"U+24C4">>, <<"U+24C5">>,
       <<"U+24C6">>, <<"U+24C7">>, <<"U+24C8">>, <<"U+24C9">>, <<"U+24CA">>,
       <<"U+24CB">>, <<"U+24CC">>, <<"U+24CD">>, <<"U+24CE">>, <<"U+24CF">>,
       <<"U+2C00">>, <<"U+2C01">>, <<"U+2C02">>, <<"U+2C03">>, <<"U+2C04">>,
       <<"U+2C05">>, <<"U+2C06">>, <<"U+2C07">>, <<"U+2C08">>, <<"U+2C09">>,
       <<"U+2C0A">>, <<"U+2C0B">>, <<"U+2C0C">>, <<"U+2C0D">>, <<"U+2C0E">>,
       <<"U+2C0F">>, <<"U+2C10">>, <<"U+2C11">>, <<"U+2C12">>, <<"U+2C13">>,
       <<"U+2C14">>, <<"U+2C15">>, <<"U+2C16">>, <<"U+2C17">>, <<"U+2C18">>,
       <<"U+2C19">>, <<"U+2C1A">>, <<"U+2C1B">>, <<"U+2C1C">>, <<"U+2C1D">>,
       <<"U+2C1E">>, <<"U+2C1F">>, <<"U+2C20">>, <<"U+2C21">>, <<"U+2C22">>,
       <<"U+2C23">>, <<"U+2C24">>, <<"U+2C25">>, <<"U+2C26">>, <<"U+2C27">>,
       <<"U+2C28">>, <<"U+2C29">>, <<"U+2C2A">>, <<"U+2C2B">>, <<"U+2C2C">>,
       <<"U+2C2D">>, <<"U+2C2E">>, <<"U+2C2F">>, <<"U+2C60">>, <<"U+023A">>,
       <<"U+023E">>, <<"U+2C67">>, <<"U+2C69">>, <<"U+2C6B">>, <<"U+2C72">>,
       <<"U+2C75">>, <<"U+2C80">>, <<"U+2C82">>, <<"U+2C84">>, <<"U+2C86">>,
       <<"U+2C88">>, <<"U+2C8A">>, <<"U+2C8C">>, <<"U+2C8E">>, <<"U+2C90">>,
       <<"U+2C92">>, <<"U+2C94">>, <<"U+2C96">>, <<"U+2C98">>, <<"U+2C9A">>,
       <<"U+2C9C">>, <<"U+2C9E">>, <<"U+2CA0">>, <<"U+2CA2">>, <<"U+2CA4">>,
       <<"U+2CA6">>, <<"U+2CA8">>, <<"U+2CAA">>, <<"U+2CAC">>, <<"U+2CAE">>,
       <<"U+2CB0">>, <<"U+2CB2">>, <<"U+2CB4">>, <<"U+2CB6">>, <<"U+2CB8">>,
       <<"U+2CBA">>, <<"U+2CBC">>, <<"U+2CBE">>, <<"U+2CC0">>, <<"U+2CC2">>,
       <<"U+2CC4">>, <<"U+2CC6">>, <<"U+2CC8">>, <<"U+2CCA">>, <<"U+2CCC">>,
       <<"U+2CCE">>, <<"U+2CD0">>, <<"U+2CD2">>, <<"U+2CD4">>, <<"U+2CD6">>,
       <<"U+2CD8">>, <<"U+2CDA">>, <<"U+2CDC">>, <<"U+2CDE">>, <<"U+2CE0">>,
       <<"U+2CE2">>, <<"U+2CEB">>, <<"U+2CED">>, <<"U+2CF2">>, <<"U+10A0">>,
       <<"U+10A1">>, <<"U+10A2">>, <<"U+10A3">>, <<"U+10A4">>, <<"U+10A5">>,
       <<"U+10A6">>, <<"U+10A7">>, <<"U+10A8">>, <<"U+10A9">>, <<"U+10AA">>,
       <<"U+10AB">>, <<"U+10AC">>, <<"U+10AD">>, <<"U+10AE">>, <<"U+10AF">>,
       <<"U+10B0">>, <<"U+10B1">>, <<"U+10B2">>, <<"U+10B3">>, <<"U+10B4">>,
       <<"U+10B5">>, <<"U+10B6">>, <<"U+10B7">>, <<"U+10B8">>, <<"U+10B9">>,
       <<"U+10BA">>, <<"U+10BB">>, <<"U+10BC">>, <<"U+10BD">>, <<"U+10BE">>,
       <<"U+10BF">>, <<"U+10C0">>, <<"U+10C1">>, <<"U+10C2">>, <<"U+10C3">>,
       <<"U+10C4">>, <<"U+10C5">>, <<"U+10C7">>, <<"U+10CD">>, <<"U+A640">>,
       <<"U+A642">>, <<"U+A644">>, <<"U+A646">>, <<"U+A648">>, <<"U+A64A">>,
       <<"U+A64C">>, <<"U+A64E">>, <<"U+A650">>, <<"U+A652">>, <<"U+A654">>,
       <<"U+A656">>, <<"U+A658">>, <<"U+A65A">>, <<"U+A65C">>, <<"U+A65E">>,
       <<"U+A660">>, <<"U+A662">>, <<"U+A664">>, <<"U+A666">>, <<"U+A668">>,
       <<"U+A66A">>, <<"U+A66C">>, <<"U+A680">>, <<"U+A682">>, <<"U+A684">>,
       <<"U+A686">>, <<"U+A688">>, <<"U+A68A">>, <<"U+A68C">>, <<"U+A68E">>,
       <<"U+A690">>, <<"U+A692">>, <<"U+A694">>, <<"U+A696">>, <<"U+A698">>,
       <<"U+A69A">>, <<"U+A722">>, <<"U+A724">>, <<"U+A726">>, <<"U+A728">>,
       <<"U+A72A">>, <<"U+A72C">>, <<"U+A72E">>, <<"U+A732">>, <<"U+A734">>,
       <<"U+A736">>, <<"U+A738">>, <<"U+A73A">>, <<"U+A73C">>, <<"U+A73E">>,
       <<"U+A740">>, <<"U+A742">>, <<"U+A744">>, <<"U+A746">>, <<"U+A748">>,
       <<"U+A74A">>, <<"U+A74C">>, <<"U+A74E">>, <<"U+A750">>, <<"U+A752">>,
       <<"U+A754">>, <<"U+A756">>, <<"U+A758">>, <<"U+A75A">>, <<"U+A75C">>,
       <<"U+A75E">>, <<"U+A760">>, <<"U+A762">>, <<"U+A764">>, <<"U+A766">>,
       <<"U+A768">>, <<"U+A76A">>, <<"U+A76C">>, <<"U+A76E">>, <<"U+A779">>,
       <<"U+A77B">>, <<"U+A77E">>, <<"U+A780">>, <<"U+A782">>, <<"U+A784">>,
       <<"U+A786">>, <<"U+A78B">>, <<"U+A790">>, <<"U+A792">>, <<"U+A7C4">>,
       <<"U+A796">>, <<"U+A798">>, <<"U+A79A">>, <<"U+A79C">>, <<"U+A79E">>,
       <<"U+A7A0">>, <<"U+A7A2">>, <<"U+A7A4">>, <<"U+A7A6">>, <<"U+A7A8">>,
       <<"U+A7B4">>, <<"U+A7B6">>, <<"U+A7B8">>, <<"U+A7BA">>, <<"U+A7BC">>,
       <<"U+A7BE">>, <<"U+A7C0">>, <<"U+A7C2">>, <<"U+A7C7">>, <<"U+A7C9">>,
       <<"U+A7D0">>, <<"U+A7D6">>, <<"U+A7D8">>, <<"U+A7F5">>, <<"U+A7B3">>,
       <<"U+13A0">>, <<"U+13A1">>, <<"U+13A2">>, <<"U+13A3">>, <<"U+13A4">>,
       <<"U+13A5">>, <<"U+13A6">>, <<"U+13A7">>, <<"U+13A8">>, <<"U+13A9">>,
       <<"U+13AA">>, <<"U+13AB">>, <<"U+13AC">>, <<"U+13AD">>, <<"U+13AE">>,
       <<"U+13AF">>, <<"U+13B0">>, <<"U+13B1">>, <<"U+13B2">>, <<"U+13B3">>,
       <<"U+13B4">>, <<"U+13B5">>, <<"U+13B6">>, <<"U+13B7">>, <<"U+13B8">>,
       <<"U+13B9">>, <<"U+13BA">>, <<"U+13BB">>, <<"U+13BC">>, <<"U+13BD">>,
       <<"U+13BE">>, <<"U+13BF">>, <<"U+13C0">>, <<"U+13C1">>, <<"U+13C2">>,
       <<"U+13C3">>, <<"U+13C4">>, <<"U+13C5">>, <<"U+13C6">>, <<"U+13C7">>,
       <<"U+13C8">>, <<"U+13C9">>, <<"U+13CA">>, <<"U+13CB">>, <<"U+13CC">>,
       <<"U+13CD">>, <<"U+13CE">>, <<"U+13CF">>, <<"U+13D0">>, <<"U+13D1">>,
       <<"U+13D2">>, <<"U+13D3">>, <<"U+13D4">>, <<"U+13D5">>, <<"U+13D6">>,
       <<"U+13D7">>, <<"U+13D8">>, <<"U+13D9">>, <<"U+13DA">>, <<"U+13DB">>,
       <<"U+13DC">>, <<"U+13DD">>, <<"U+13DE">>, <<"U+13DF">>, <<"U+13E0">>,
       <<"U+13E1">>, <<"U+13E2">>, <<"U+13E3">>, <<"U+13E4">>, <<"U+13E5">>,
       <<"U+13E6">>, <<"U+13E7">>, <<"U+13E8">>, <<"U+13E9">>, <<"U+13EA">>,
       <<"U+13EB">>, <<"U+13EC">>, <<"U+13ED">>, <<"U+13EE">>, <<"U+13EF">>,
       <<"F", "F">>, <<"F", "I">>, <<"F", "L">>, <<"F", "F", "I">>, <<"F", "F", "L">>,
       <<"S", "T">>, <<"S", "T">>, <<"U+0544", "U+0546">>, <<"U+0544", "U+0535">>,
       <<"U+0544", "U+053B">>, <<"U+054E", "U+0546">>, <<"U+0544", "U+053D">>,
       <<"U+FF21">>, <<"U+FF22">>, <<"U+FF23">>, <<"U+FF24">>, <<"U+FF25">>,
       <<"U+FF26">>, <<"U+FF27">>, <<"U+FF28">>, <<"U+FF29">>, <<"U+FF2A">>,
       <<"U+FF2B">>, <<"U+FF2C">>, <<"U+FF2D">>, <<"U+FF2E">>, <<"U+FF2F">>,
       <<"U+FF30">>, <<"U+FF31">>, <<"U+FF32">>, <<"U+FF33">>, <<"U+FF34">>,
       <<"U+FF35">>, <<"U+FF36">>, <<"U+FF37">>, <<"U+FF38">>, <<"U+FF39">>,
       <<"U+FF3A">>, <<"U+10400">>, <<"U+10401">>, <<"U+10402">>, <<"U+10403">>,
       <<"U+10404">>, <<"U+10405">>, <<"U+10406">>, <<"U+10407">>, <<"U+10408">>,
       <<"U+10409">>, <<"U+1040A">>, <<"U+1040B">>, <<"U+1040C">>, <<"U+1040D">>,
       <<"U+1040E">>, <<"U+1040F">>, <<"U+10410">>, <<"U+10411">>, <<"U+10412">>,
       <<"U+10413">>, <<"U+10414">>, <<"U+10415">>, <<"U+10416">>, <<"U+10417">>,
       <<"U+10418">>, <<"U+10419">>, <<"U+1041A">>, <<"U+1041B">>, <<"U+1041C">>,
       <<"U+1041D">>, <<"U+1041E">>, <<"U+1041F">>, <<"U+10420">>, <<"U+10421">>,
       <<"U+10422">>, <<"U+10423">>, <<"U+10424">>, <<"U+10425">>, <<"U+10426">>,
       <<"U+10427">>, <<"U+104B0">>, <<"U+104B1">>, <<"U+104B2">>, <<"U+104B3">>,
       <<"U+104B4">>, <<"U+104B5">>, <<"U+104B6">>, <<"U+104B7">>, <<"U+104B8">>,
       <<"U+104B9">>, <<"U+104BA">>, <<"U+104BB">>, <<"U+104BC">>, <<"U+104BD">>,
       <<"U+104BE">>, <<"U+104BF">>, <<"U+104C0">>, <<"U+104C1">>, <<"U+104C2">>,
       <<"U+104C3">>, <<"U+104C4">>, <<"U+104C5">>, <<"U+104C6">>, <<"U+104C7">>,
       <<"U+104C8">>, <<"U+104C9">>, <<"U+104CA">>, <<"U+104CB">>, <<"U+104CC">>,
       <<"U+104CD">>, <<"U+104CE">>, <<"U+104CF">>, <<"U+104D0">>, <<"U+104D1">>,
       <<"U+104D2">>, <<"U+104D3">>, <<"U+10570">>, <<"U+10571">>, <<"U+10572">>,
       <<"U+10573">>, <<"U+10574">>, <<"U+10575">>, <<"U+10576">>, <<"U+10577">>,
       <<"U+10578">>, <<"U+10579">>, <<"U+1057A">>, <<"U+1057C">>, <<"U+1057D">>,
       <<"U+1057E">>, <<"U+1057F">>, <<"U+10580">>, <<"U+10581">>, <<"U+10582">>,
       <<"U+10583">>, <<"U+10584">>, <<"U+10585">>, <<"U+10586">>, <<"U+10587">>,
       <<"U+10588">>, <<"U+10589">>, <<"U+1058A">>, <<"U+1058C">>, <<"U+1058D">>,
       <<"U+1058E">>, <<"U+1058F">>, <<"U+10590">>, <<"U+10591">>, <<"U+10592">>,
       <<"U+10594">>, <<"U+10595">>, <<"U+10C80">>, <<"U+10C81">>, <<"U+10C82">>,
       <<"U+10C83">>, <<"U+10C84">>, <<"U+10C85">>, <<"U+10C86">>, <<"U+10C87">>,
       <<"U+10C88">>, <<"U+10C89">>, <<"U+10C8A">>, <<"U+10C8B">>, <<"U+10C8C">>,
       <<"U+10C8D">>, <<"U+10C8E">>, <<"U+10C8F">>, <<"U+10C90">>, <<"U+10C91">>,
       <<"U+10C92">>, <<"U+10C93">>, <<"U+10C94">>, <<"U+10C95">>, <<"U+10C96">>,
       <<"U+10C97">>, <<"U+10C98">>, <<"U+10C99">>, <<"U+10C9A">>, <<"U+10C9B">>,
       <<"U+10C9C">>, <<"U+10C9D">>, <<"U+10C9E">>, <<"U+10C9F">>, <<"U+10CA0">>,
       <<"U+10CA1">>, <<"U+10CA2">>, <<"U+10CA3">>, <<"U+10CA4">>, <<"U+10CA5">>,
       <<"U+10CA6">>, <<"U+10CA7">>, <<"U+10CA8">>, <<"U+10CA9">>, <<"U+10CAA">>,
       <<"U+10CAB">>, <<"U+10CAC">>, <<"U+10CAD">>, <<"U+10CAE">>, <<"U+10CAF">>,
       <<"U+10CB0">>, <<"U+10CB1">>, <<"U+10CB2">>, <<"U+118A0">>, <<"U+118A1">>,
       <<"U+118A2">>, <<"U+118A3">>, <<"U+118A4">>, <<"U+118A5">>, <<"U+118A6">>,
       <<"U+118A7">>, <<"U+118A8">>, <<"U+118A9">>, <<"U+118AA">>, <<"U+118AB">>,
       <<"U+118AC">>, <<"U+118AD">>, <<"U+118AE">>, <<"U+118AF">>, <<"U+118B0">>,
       <<"U+118B1">>, <<"U+118B2">>, <<"U+118B3">>, <<"U+118B4">>, <<"U+118B5">>,
       <<"U+118B6">>, <<"U+118B7">>, <<"U+118B8">>, <<"U+118B9">>, <<"U+118BA">>,
       <<"U+118BB">>, <<"U+118BC">>, <<"U+118BD">>, <<"U+118BE">>, <<"U+118BF">>,
       <<"U+16E40">>, <<"U+16E41">>, <<"U+16E42">>, <<"U+16E43">>, <<"U+16E44">>,
       <<"U+16E45">>, <<"U+16E46">>, <<"U+16E47">>, <<"U+16E48">>, <<"U+16E49">>,
       <<"U+16E4A">>, <<"U+16E4B">>, <<"U+16E4C">>, <<"U+16E4D">>, <<"U+16E4E">>,
       <<"U+16E4F">>, <<"U+16E50">>, <<"U+16E51">>, <<"U+16E52">>, <<"U+16E53">>,
       <<"U+16E54">>, <<"U+16E55">>, <<"U+16E56">>, <<"U+16E57">>, <<"U+16E58">>,
       <<"U+16E59">>, <<"U+16E5A">>, <<"U+16E5B">>, <<"U+16E5C">>, <<"U+16E5D">>,
       <<"U+16E5E">>, <<"U+16E5F">>, <<"U+1E900">>, <<"U+1E901">>, <<"U+1E902">>,
       <<"U+1E903">>, <<"U+1E904">>, <<"U+1E905">>, <<"U+1E906">>, <<"U+1E907">>,
       <<"U+1E908">>, <<"U+1E909">>, <<"U+1E90A">>, <<"U+1E90B">>, <<"U+1E90C">>,
       <<"U+1E90D">>, <<"U+1E90E">>, <<"U+1E90F">>, <<"U+1E910">>, <<"U+1E911">>,
       <<"U+1E912">>, <<"U+1E913">>, <<"U+1E914">>, <<"U+1E915">>, <<"U+1E916">>,
       <<"U+1E917">>, <<"U+1E918">>, <<"U+1E919">>, <<"U+1E91A">>, <<"U+1E91B">>,
       <<"U+1E91C">>, <<"U+1E91D">>, <<"U+1E91E">>, <<"U+1E91F">>, <<"U+1E920">>,
       <<"U+1E921">> >>

\* str.upper(): character by character, whatever stands around it
RECURSIVE Upper(_)
Upper(s) ==
    IF Len(s) = 0 THEN << >>
    ELSE LET c == Head(s)
             hits == { k \in 1..Len(LowerCase) : LowerCase[k] = c }
         IN  (IF hits = {} THEN << c >> ELSE UpperCase[CHOOSE k \in hits : TRUE])
             \o Upper(Tail(s))

\* str.isspace() of a character: the white space str.strip() removes
IsSpace(c) ==
    c \in { " ",
            "U+0009", "U+000A", "U+000B", "U+000C", "U+000D", "U+001C", "U+001D", "U+001E",
            "U+001F", "U+0085", "U+00A0", "U+1680", "U+2000", "U+2001", "U+2002", "U+2003",
            "U+2004", "U+2005", "U+2006", "U+2007", "U+2008", "U+2009", "U+200A", "U+2028",
            "U+2029", "U+202F", "U+205F", "U+3000" }

\* str.strip()
RECURSIVE Strip(_)
Strip(s) ==
    IF Len(s) = 0 THEN s
    ELSE IF IsSpace(Head(s)) THEN Strip(Tail(s))
    ELSE IF IsSpace(s[Len(s)]) THEN Strip(SubSeq(s, 1, Len(s) - 1))
    ELSE s

\* manage_watchlist.py:74-76
_normalize_symbol(symbol) == Strip(Upper(LStrip(symbol, "$")))

\* manage_watchlist.py:79-88: the position in the ticker list of the ticker
\* dict the function returns, None when there is none
find_ticker(watchlist, symbol) ==
    LET normalized == _normalize_symbol(symbol)
        tickers == Get(watchlist, "tickers", << >>)
        hits == { k \in 1..Len(tickers) : tickers[k].symbol = normalized }
    IN  IF hits = {} THEN None
        ELSE Some(CHOOSE k \in hits : \A j \in hits : k <= j)

\* a dict with a key set
Put(d, k, v) == [key \in DOMAIN d \cup {k} |-> IF key = k THEN v ELSE d[key]]

\* what a call leaves: its result and the watchlist it was given, mutated
Outcome(success, message, watchlist) ==
    [result |-> [success |-> success, message |-> message], watchlist |-> watchlist]

\* manage_watchlist.py:91-122; today is date.today().isoformat()
add_ticker(watchlist, symbol, name, today) ==
    LET normalized == _normalize_symbol(symbol)
    IN  IF normalized = << >>
        THEN Outcome(FALSE, Text("Symbol cannot be empty."), watchlist)
        ELSE IF name = << >> \/ Strip(name) = << >>
        THEN Outcome(FALSE, Text("Company name cannot be empty."), watchlist)
        ELSE IF find_ticker(watchlist, normalized) # None
        THEN Outcome(FALSE,
                     Text("$") \o normalized \o Text(" is already in your watchlist."),
                     watchlist)
        ELSE Outcome(TRUE,
                     Text("Added $") \o normalized \o Text(" (") \o Strip(name)
                         \o Text(") to your watchlist with default alert rules."),
                     Put(watchlist, "tickers",
                         Append(Get(watchlist, "tickers", << >>),
                                [symbol |-> normalized, name |-> Strip(name),
                                 added |-> today, rules |-> EmptyDict])))

\* manage_watchlist.py:125-146
remove_ticker(watchlist, symbol) ==
    LET normalized == _normalize_symbol(symbol)
        tickers == Get(watchlist, "tickers", << >>)
        kept == SelectSeq(tickers, LAMBDA t : t.symbol # normalized)
    IN  IF Len(kept) = Len(tickers)
        THEN Outcome(FALSE,
                     Text("$") \o normalized \o Text(" not found in your watchlist."),
                     Put(watchlist, "tickers", kept))
        ELSE Outcome(TRUE,
                     Text("Removed $") \o normalized \o Text(" from your watchlist."),
                     Put(watchlist, "tickers", kept))

\* manage_watchlist.py:149-183; a ticker dict without the key "rules" makes
\* the assignment at 179 raise KeyError
set_rule(watchlist, symbol, rule_name, value) ==
    LET found == find_ticker(watchlist, symbol)
    IN  IF found = None
        THEN Outcome(FALSE,
                     Text("$") \o _normalize_symbol(symbol)
                         \o Text(" not found in your watchlist."),
                     watchlist)
        ELSE IF rule_name \notin DOMAIN VALID_RULES
        THEN Outcome(FALSE,
                     Text("Unknown rule '" \o rule_name
                         \o "'. Valid rules: competitive_news, price_movement_pct, "
                         \o "sec_filing, sentiment_shift, social_volume_spike"),
                     watchlist)
        ELSE IF ~IsInstance(value, VALID_RULES[rule_name])
        THEN Outcome(FALSE,
                     Text("Invalid value for '" \o rule_name \o "': expected "
                         \o TypeNames(rule_name) \o ", got " \o value.type \o "."),
                     watchlist)
        ELSE IF "rules" \notin DOMAIN watchlist.tickers[found[1]]
        THEN RaisedOf("KeyError", "'rules'", << >>)
        ELSE Outcome(TRUE,
                     Text("Set " \o rule_name \o " = " \o value.text \o " for $")
                         \o watchlist.tickers[found[1]].symbol
                         \o Text(". Effective next heartbeat."),
                     [watchlist EXCEPT !.tickers[found[1]].rules =
                         Put(@, rule_name, value)])

\* manage_watchlist.py:186-204; the assignment at 200 gives the ticker dict
\* the key "rules" when it has none
reset_rules(watchlist, symbol) ==
    LET found == find_ticker(watchlist, symbol)
    IN  IF found = None
        THEN Outcome(FALSE,
                     Text("$") \o _normalize_symbol(symbol)
                         \o Text(" not found in your watchlist."),
                     watchlist)
        ELSE Outcome(TRUE,
                     Text("Reset $") \o watchlist.tickers[found[1]].symbol
                         \o Text(" to default alert rules."),
                     [watchlist EXCEPT !.tickers[found[1]] = Put(@, "rules", EmptyDict)])

\* manage_watchlist.py:207-223
set_global(watchlist, key, value) ==
    IF key \notin VALID_GLOBALS
    THEN Outcome(FALSE,
                 Text("Unknown setting '" \o key
                     \o "'. Valid settings: cheap_model, significance_threshold, strong_model"),
                 watchlist)
    ELSE Outcome(TRUE,
                 Text("Set global " \o key \o " = " \o value.text
                     \o ". Effective next heartbeat."),
                 Put(watchlist, "global_settings",
                     Put(Get(watchlist, "global_settings", EmptyDict), key, value)))

----------------------------------------------------------------------------
(* The watchlist as a state machine: x_in holds the watchlist file and the
   command lines still to be run, one run of main() each; x_out holds the
   last run with what it printed *)

\* the command lines: a symbol in lower case, with a '$' prefix, with white
\* space before the '$', of '$' only, with an accented letter, with a sharp
\* s, with a no-break space before it, of a letter beyond U+00FF, of a
\* letter that becomes two in upper case, and the empty string; a name, a blank name, no name and a
\* name of a no-break space; rule names, values and setting keys
Invocations ==
    LET cake == Text("cake")
        symbols == { cake, Text("$CAKE"), Text(" $cake"), Text("$"),
                     Text("caf") \o << "U+00E9" >>, Text("stra") \o << "U+00DF" >> \o Text("e"),
                     << "U+00A0" >> \o Text("cake"),
                     << "U+0101" >>, << "U+0149" >>, << >> }
        factory == Text("Cheesecake Factory")
        names == { factory, Text(" "), << >>, << "U+00A0" >> }
        five == Value("int", "5")
        values == { five, Value("str", "high"), Value("bool", "True") }
    IN  { [op |-> "add", symbol |-> symbol, name |-> factory] : symbol \in symbols }
        \cup { [op |-> "add", symbol |-> cake, name |-> name] : name \in names }
        \cup { [op |-> "remove", symbol |-> symbol] : symbol \in symbols }
        \cup { [op |-> "set_rule", symbol |-> symbol, rule_name |-> "price_movement_pct",
                value |-> five] : symbol \in symbols }
        \cup { [op |-> "set_rule", symbol |-> cake, rule_name |-> rule_name,
                value |-> value] :
                 rule_name \in {"price_movement_pct", "sec_filing", "volume"},
                 value \in values }
        \cup { [op |-> "reset_rules", symbol |-> symbol] : symbol \in symbols }
        \cup { [op |-> "set_global", key |-> key, value |-> value] :
                 key \in {"cheap_model", "theme"}, value \in values }

\* date.today().isoformat() on the day of the runs
Today == Text("2026-10-29")

\* watchlist files whose symbols are normalized and pairwise distinct: none
\* of the keys, no ticker, a ticker as add_ticker writes it, a ticker
\* written by hand without the key "rules", and a ticker of a letter beyond
\* U+00FF
StartWatchlists ==
    LET cake == [symbol |-> Text("CAKE"), name |-> Text("Cheesecake Factory"),
                 added |-> Text("2026-01-05")]
    IN  { EmptyDict,
          [tickers |-> << >>],
          [tickers |-> << Put(cake, "rules", EmptyDict) >>],
          [tickers |-> << cake >>],
          [tickers |-> << [symbol |-> << "U+0100" >>, name |-> Text("Amber"),
                           added |-> Text("2026-01-05"), rules |-> EmptyDict] >>] }

\* the watchlist main() loads (326)
Watchlist == x_in[1].file

TickerList == Get(Watchlist, "tickers", << >>)

\* the command line of the next run
Args == Head(x_in[1].pending)

\* manage_watchlist.py:328-351: main() takes the branch of an option when
\* its argument is true, so when it is not the empty string; with no branch
\* taken, result is not bound and the print at 347 raises.  Else the message
\* is printed, and the watchlist is saved when the call succeeded; a run
\* that raised prints and saves nothing
Called(op, symbol, taken, call) ==
    LET outcome == IF taken THEN call
                   ELSE RaisedOf("UnboundLocalError",
                                 "cannot access local variable 'result' where it is "
                                     \o "not associated with a value", << >>)
        raised == "raised" \in DOMAIN outcome
        saved == ~raised /\ outcome.result.success
    IN  /\ x_in' = Some([file |-> IF saved THEN outcome.watchlist ELSE Watchlist,
                         pending |-> Tail(x_in[1].pending)])
        /\ x_out' = Some([op |-> op, symbol |-> symbol,
                          result |-> IF raised
                                     THEN [success |-> FALSE, raised |-> outcome.type,
                                           message |-> Text(outcome.msg)]
                                     ELSE outcome.result,
                          exit_code |-> IF saved THEN 0 ELSE 1])
        /\ UNCHANGED gvars

\* manage_watchlist.py:328-332: without a name the run ends with an error
\* message before add_ticker is called
add_call ==
    /\ x_in # None /\ x_in[1].pending # << >> /\ Args.op = "add"
    /\ Called("add_ticker", Args.symbol, Args.symbol # << >>,
              IF Args.name = << >>
              THEN Outcome(FALSE, Text("Error: --name is required when adding a ticker."),
                           Watchlist)
              ELSE add_ticker(Watchlist, Args.symbol, Args.name, Today))

\* manage_watchlist.py:333-334
remove_call ==
    /\ x_in # None /\ x_in[1].pending # << >> /\ Args.op = "remove"
    /\ Called("remove_ticker", Args.symbol, Args.symbol # << >>,
              remove_ticker(Watchlist, Args.symbol))

\* manage_watchlist.py:335-337
set_rule_call ==
    /\ x_in # None /\ x_in[1].pending # << >> /\ Args.op = "set_rule"
    /\ Called("set_rule", Args.symbol, TRUE,
              set_rule(Watchlist, Args.symbol, Args.rule_name, Args.value))

\* manage_watchlist.py:338-339
reset_rules_call ==
    /\ x_in # None /\ x_in[1].pending # << >> /\ Args.op = "reset_rules"
    /\ Called("reset_rules", Args.symbol, Args.symbol # << >>,
              reset_rules(Watchlist, Args.symbol))

\* manage_watchlist.py:340-342
set_global_call ==
    /\ x_in # None /\ x_in[1].pending # << >> /\ Args.op = "set_global"
    /\ Called("set_global", << >>, TRUE, set_global(Watchlist, Args.key, Args.value))

InitWatchlist ==
    /\ Idle
    /\ x_in \in { Some([file |-> wl, pending |-> pending]) :
                    wl \in StartWatchlists, pending \in ListsUpTo(Invocations, MaxCalls) }
    /\ x_out = None

NextWatchlist ==
    add_call \/ remove_call \/ set_rule_call \/ reset_rules_call \/ set_global_call

SpecWatchlist == InitWatchlist /\ [][NextWatchlist]_vars

----------------------------------------------------------------------------
(* Claims about the Temporal Extractor *)

\* the drawn series of the first alias, filtered and sorted by period end
SortedSurvivors ==
    SortByEndDate(FilterEntries(
        x_in[1].facts.facts["us-gaap"]["Revenues"].units["USD"],
        x_in[1].now_year - x_in[1].years).value)

LastWithKey(results, key) ==
    results[CHOOSE j \in 1..Len(results) :
              /\ DedupKey(results[j]) = key
              /\ \A k \in (j + 1)..Len(results) : DedupKey(results[k]) # key]

\* C1: when several surviving facts share a (period end, form without "/A")
\* key, the Observation kept for that key is the last one of the
\* period-end-sorted sequence, so an amendment listed after its original
\* replaces it.
C1_DedupKeepsLastSeen ==
    (x_out # None /\ ~x_out[1].raised /\ Len(SortedSurvivors) > 0) =>
        \A k \in 1..Len(x_out[1].value) :
            x_out[1].value[k] =
                LastWithKey(SortedSurvivors, DedupKey(x_out[1].value[k]))

\* the call has returned a sequence
Extracted == x_out # None /\ ~x_out[1].raised

Output == x_out[1].value

UsGaap == x_in[1].facts.facts["us-gaap"]

CutoffYear == x_in[1].now_year - x_in[1].years

\* the series drawn for the first alias
DrawnSeries == UsGaap["Revenues"].units["USD"]

\* the entries the payload reports for alias number a under unit kind u
EntriesAt(a, u) ==
    Get(Get(Get(UsGaap, x_in[1].concept_names[a], << >>), "units", << >>),
        UNIT_TYPES[u], << >>)

\* the period a filing reports on: its end date and its form, an amendment
\* counting as the form it amends
PeriodKey(o) ==
    <<o.end_date,
      CASE o.form = "10-K/A" -> "10-K" [] o.form = "10-Q/A" -> "10-Q" [] OTHER -> o.form>>

\* C15: no two Observations of a returned sequence share the key (period-end
\* date, filing type with "/A" stripped).
C15_DedupInvariant ==
    Extracted =>
        \A j, k \in 1..Len(Output) :
            j # k => PeriodKey(Output[j]) # PeriodKey(Output[k])

\* an annual report, its amendment and a quarterly report gave two Observations
C15_Witness ==
    /\ Extracted
    /\ DrawnSeries = <<E_K24, E_KA24, E_Q24>>
    /\ Len(Output) = 2

RECURSIVE IsSubsequence(_, _)
IsSubsequence(a, b) ==
    IF Len(a) = 0 THEN TRUE
    ELSE IF Len(b) = 0 THEN FALSE
    ELSE IF Head(a) = Head(b) THEN IsSubsequence(Tail(a), Tail(b))
    ELSE IsSubsequence(a, Tail(b))

\* the filtered entries of the series (a, u), none if the filter raised
Survivors(a, u) == FilterEntries(EntriesAt(a, u), CutoffYear).value

\* the positions (alias, unit kind) in the order the loops visit them
Positions ==
    { <<a, u>> : a \in 1..Len(x_in[1].concept_names), u \in 1..Len(UNIT_TYPES) }

Before(p, q) == p[1] < q[1] \/ (p[1] = q[1] /\ p[2] < q[2])

\* the positions whose series has an entry that passes the filters
WithSurvivors == { p \in Positions : Len(Survivors(p[1], p[2])) > 0 }

FirstWithSurvivors ==
    CHOOSE p \in WithSurvivors : \A q \in WithSurvivors : q = p \/ Before(p, q)

\* C16: a returned sequence is non-decreasing by period-end date, and the
\* Observations that deduplication keeps stand in the order the sort gave
\* them.
C16_OrderingInvariant ==
    Extracted =>
        /\ \A j, k \in 1..Len(Output) :
              j < k => ~StrLess(Output[k].end_date, Output[j].end_date)
        /\ WithSurvivors # {} =>
              IsSubsequence(Output,
                  SortByEndDate(Survivors(FirstWithSurvivors[1], FirstWithSurvivors[2])))

\* a series listed latest-first came out earliest-first, duplicates removed
C16_Witness ==
    /\ Extracted
    /\ DrawnSeries = <<E_K24, E_Q24, E_K23>>
    /\ Len(Output) = 3
    /\ Output[1].end_date = "2023-12-31" /\ Output[3].end_date = "2024-12-31"

\* every entry of every series of the payload
AllEntries ==
    UNION { { EntriesAt(p[1], p[2])[k] : k \in 1..Len(EntriesAt(p[1], p[2])) } :
            p \in Positions }

\* C19: every returned Observation has a filing type among 10-K, 10-Q,
\* 10-K/A and 10-Q/A, a non-empty period-end date whose year parses and is at
\* least the current year minus the lookback window, and is the Observation
\* of a fact of the payload with that form and end date: a fact failing one
\* of the filters is never in the output.
C19_FilterSoundness ==
    Extracted =>
        \A k \in 1..Len(Output) :
            LET o == Output[k]
            IN  /\ o.form \in {"10-K", "10-Q", "10-K/A", "10-Q/A"}
                /\ o.end_date # ""
                /\ ParseInt(Slice(o.end_date, 4)) # None
                /\ ParseInt(Slice(o.end_date, 4))[1] >= x_in[1].now_year - x_in[1].years
                /\ \E e \in AllEntries :
                      /\ "end" \in DOMAIN e /\ e.end = o.end_date
                      /\ "form" \in DOMAIN e /\ e.form = o.form
                      /\ o.value = Some(e.val)

\* a current report and a fact older than the window were dropped, the
\* fact of the cutoff year itself was kept
C19_Witness ==
    /\ Extracted
    /\ DrawnSeries = <<E_8K, E_Old, E_K24>>
    /\ x_in[1].years = 2
    /\ Len(Output) = 1 /\ Output[1].value = Some(100)

\* the filter raised on the series (a, u)
FilterRaised(a, u) == FilterEntries(EntriesAt(a, u), CutoffYear).raised

\* alias number a has data: one of its series has an entry that passes the
\* filters, and the series before it were read without a fault
HasData(a) ==
    \E u \in 1..Len(UNIT_TYPES) :
        /\ Len(Survivors(a, u)) > 0
        /\ \A v \in 1..(u - 1) : ~FilterRaised(a, v)

\* alias number a has no data: it is absent, or none of its series has an
\* entry that passes the filters
HasNoData(a) ==
    \A u \in 1..Len(UNIT_TYPES) : ~FilterRaised(a, u) /\ Survivors(a, u) = << >>

\* o is the Observation of a fact reported under alias number a
FromAlias(o, a) ==
    \E u \in 1..Len(UNIT_TYPES) :
        \E k \in 1..Len(EntriesAt(a, u)) :
            Observation(EntriesAt(a, u)[k], CutoffYear) = Returned(Some(o), << >>)

\* C17: for the alias list [A, B]: if A has no data and B has data, the
\* result is built from B's facts; if both have data, the result is built
\* from A's facts only and holds nothing of B; if neither has data, the
\* result is the empty sequence and nothing is raised.
C17_FallbackCorrectness ==
    x_out # None =>
        /\ (HasNoData(1) /\ HasData(2)) =>
              /\ Extracted /\ Output # << >>
              /\ \A k \in 1..Len(Output) : FromAlias(Output[k], 2)
        /\ (HasData(1) /\ HasData(2)) =>
              /\ Extracted /\ Output # << >>
              /\ \A k \in 1..Len(Output) :
                    FromAlias(Output[k], 1) /\ ~FromAlias(Output[k], 2)
        /\ (HasNoData(1) /\ HasNoData(2)) => (Extracted /\ Output = << >>)

\* the first alias reports nothing, the second alias gave the result
C17_Witness ==
    /\ Extracted
    /\ DrawnSeries = << >>
    /\ "SalesRevenueNet" \in DOMAIN UsGaap
    /\ Len(Output) = 1 /\ Output[1].value = Some(999)

\* alias number a reports entries under some unit kind
Reported(a) == \E u \in 1..Len(UNIT_TYPES) : Len(EntriesAt(a, u)) > 0

ReportedAliases == { a \in 1..Len(x_in[1].concept_names) : Reported(a) }

FirstReportedAlias == CHOOSE a \in ReportedAliases : \A b \in ReportedAliases : a <= b

\* C18 as stated: the result is built only from the facts of the first alias
\* that reports any entries; if the filters remove all of them the result is
\* empty, and no later alias is used in its place.
C18_FirstReportedAliasIsFinal ==
    Extracted =>
        IF ReportedAliases = {} THEN Output = << >>
        ELSE /\ \A k \in 1..Len(Output) : FromAlias(Output[k], FirstReportedAlias)
             /\ (\A u \in 1..Len(UNIT_TYPES) : Survivors(FirstReportedAlias, u) = << >>)
                   => Output = << >>

\* C18: a returned result is built only from the facts of the first series,
\* in the order alias by alias and unit kind by unit kind, that has a fact
\* passing the filing-type, period-end and lookback filters: it holds one
\* Observation for each period key of that series and nothing else.  A series
\* whose facts are all removed by the filters is passed over, and the result
\* is empty only if no series of any alias has a fact that passes.
C18_FirstSurvivingSeries ==
    Extracted =>
        IF WithSurvivors = {} THEN Output = << >>
        ELSE LET chosen == Survivors(FirstWithSurvivors[1], FirstWithSurvivors[2])
             IN  /\ Output # << >>
                 /\ \A k \in 1..Len(Output) :
                       \E j \in 1..Len(chosen) : chosen[j] = Output[k]
                 /\ \A j \in 1..Len(chosen) :
                       \E k \in 1..Len(Output) :
                           PeriodKey(Output[k]) = PeriodKey(chosen[j])

\* the filters removed the only fact of the first alias and the result came
\* from the second alias
C18_Witness ==
    /\ Extracted
    /\ DrawnSeries = <<E_Old>>
    /\ "SalesRevenueNet" \in DOMAIN UsGaap
    /\ Len(Output) = 1 /\ Output[1].value = Some(999)

\* a record whose period-end date is a non-empty string with a parseable year
WellFormed(e) ==
    /\ "end_int" \notin DOMAIN e
    /\ "end" \in DOMAIN e /\ e.end # ""
    /\ ParseInt(Slice(e.end, 4)) # None

\* C20 as stated: whatever malformed records a series holds, the call does
\* not raise and returns what it returns for the series without them.
C20_MalformedDropped ==
    x_out # None =>
        /\ ~x_out[1].raised
        /\ x_out[1] =
              _extract_concept_data(
                  [x_in[1].facts EXCEPT
                      !.facts["us-gaap"]["Revenues"].units["USD"] =
                          SelectSeq(DrawnSeries, LAMBDA e : WellFormed(e))],
                  x_in[1].concept_names, x_in[1].years, x_in[1].now_year)

\* o is the Observation of an entry of the series at position p
FromPosition(o, p) ==
    \E k \in 1..Len(EntriesAt(p[1], p[2])) :
        Observation(EntriesAt(p[1], p[2])[k], CutoffYear) = Returned(Some(o), << >>)

\* C28: a returned sequence is built from the entries of exactly one alias
\* under exactly one unit kind, and nothing of any other series is merged
\* in; no series visited earlier - an earlier alias under any unit kind, or
\* the same alias under a unit kind earlier in USD, USD/shares, shares, pure -
\* has a fact passing the filters, so an earlier alias with data only as a
\* share count wins over a later alias with data in USD.
C28_SingleOriginUnitPriority ==
    (Extracted /\ Output # << >>) =>
        \E p \in Positions :
            /\ \A k \in 1..Len(Output) : FromPosition(Output[k], p)
            /\ \A q \in Positions \ {p} :
                  \A k \in 1..Len(Output) : ~FromPosition(Output[k], q)
            /\ \A q \in Positions : Before(q, p) => Survivors(q[1], q[2]) = << >>

\* the first alias reports nothing in USD and a share count, the second
\* alias reports USD: the share count of the first alias is returned
C28_Witness ==
    /\ Extracted
    /\ DrawnSeries = << >>
    /\ EntriesAt(1, 3) = <<E_Share>> /\ EntriesAt(2, 1) = <<E_Alt>>
    /\ Len(Output) = 1 /\ Output[1].value = Some(777)

----------------------------------------------------------------------------
(* Claims about the Metric Aggregator *)

ConceptTable ==
    [income |-> INCOME_CONCEPTS, balance_sheet |-> BALANCE_SHEET_CONCEPTS,
     cash_flow |-> CASH_FLOW_CONCEPTS]

\* the Observation sequence extracted for a metric of the drawn payload
ExtractedSeries(category, metric) ==
    _extract_concept_data(x_in[1].facts, ConceptTable[category][metric],
                          x_in[1].years, x_in[1].now_year).value

\* the payload is missing, empty or without us-gaap facts
NothingReported ==
    \/ x_in[1].facts = None
    \/ "us-gaap" \notin DOMAIN Get(x_in[1].facts, "facts", EmptyDict)
    \/ DOMAIN x_in[1].facts.facts["us-gaap"] = {}

\* C21: the returned document has exactly the categories income,
\* balance_sheet and cash_flow; a metric is a key of its category if and
\* only if its extracted Observation sequence is non-empty, and then maps to
\* that sequence, so no key maps to an empty sequence; a missing or empty
\* payload and a payload without us-gaap facts give three empty categories.
C21_DocumentShape ==
    /\ Extracted =>
          /\ DOMAIN Output = {"income", "balance_sheet", "cash_flow"}
          /\ \A category \in DOMAIN Output :
                /\ DOMAIN Output[category] \subseteq DOMAIN ConceptTable[category]
                /\ \A metric \in DOMAIN ConceptTable[category] :
                      /\ metric \in DOMAIN Output[category]
                            <=> ExtractedSeries(category, metric) # << >>
                      /\ metric \in DOMAIN Output[category] =>
                            Output[category][metric] = ExtractedSeries(category, metric)
    /\ (x_out # None /\ NothingReported) =>
          /\ Extracted
          /\ \A category \in DOMAIN Output : DOMAIN Output[category] = {}

\* revenue was extracted from its fourth alias and entered; the only fact of
\* total assets is older than the window and the metric was left out
C21_Witness ==
    /\ Extracted /\ ~NothingReported
    /\ DOMAIN x_in[1].facts.facts["us-gaap"] = {"SalesRevenueNet", "Assets"}
    /\ DOMAIN Output.income = {"revenue"}
    /\ DOMAIN Output.balance_sheet = {}
    /\ DOMAIN Output.cash_flow = {}

----------------------------------------------------------------------------
(* Claims about the latest value and the trend of a Metric Series *)

LatestReturned == x_out # None /\ x_out[1].call = "_get_latest_value"

TrendReturned == x_out # None /\ x_out[1].call = "_format_trend"

\* the filing type an Observation counts as: an amendment as what it amends
FilingType(o) ==
    CASE o.form = "10-K/A" -> "10-K" [] o.form = "10-Q/A" -> "10-Q" [] OTHER -> o.form

\* the positions of the Observations of a filing type in a series
PositionsOfType(data, type) == { k \in 1..Len(data) : FilingType(data[k]) = type }

Last(S) == CHOOSE k \in S : \A j \in S : j <= k

\* the Observation the latest-value rule selects from a non-empty series
LatestOf(data) ==
    IF PositionsOfType(data, "10-K") # {}
    THEN data[Last(PositionsOfType(data, "10-K"))]
    ELSE data[Len(data)]

\* C29: for a non-empty Metric Series _get_latest_value returns the last
\* annual Observation (10-K, amendment counted as annual), none of the
\* annual ones having a later period end, when there is one, and the last
\* Observation of the series otherwise; it returns None only for the empty
\* series.
C29_LatestValueSelection ==
    LatestReturned =>
        LET data == x_in[1]
            annual == PositionsOfType(data, "10-K")
        IN  /\ x_out[1].value = None <=> data = << >>
            /\ data # << >> =>
                  /\ x_out[1].value = Some(LatestOf(data))
                  /\ \A k \in annual :
                        ~StrLess(x_out[1].value[1].end_date, data[k].end_date)
                  /\ annual = {} =>
                        \A k \in 1..Len(data) :
                            ~StrLess(x_out[1].value[1].end_date, data[k].end_date)

\* a quarterly Observation ends after the last annual one, and the annual
\* one is returned
C29_Witness ==
    /\ LatestReturned
    /\ Len(x_in[1]) = 2
    /\ x_in[1][1].form = "10-K" /\ x_in[1][2].form = "10-Q"
    /\ x_out[1].value = Some(x_in[1][1])

\* whether and how a trend is to be shown for the two most recent
\* Observations, at the positions S, of a series
TrendExpected(data, S) ==
    /\ Cardinality(S) >= 2
    /\ data[Last(S)].value # None
    /\ data[Last(S \ {Last(S)})].value # None
    /\ data[Last(S \ {Last(S)})].value[1] # 0

DirectionTag(data, S) ==
    LET later == data[Last(S)].value[1]
        earlier == data[Last(S \ {Last(S)})].value[1]
    IN  IF later > earlier THEN "UP" ELSE IF later < earlier THEN "DOWN" ELSE "FLAT"

PercentChange(data, S) ==
    LET later == data[Last(S)].value[1]
        earlier == data[Last(S \ {Last(S)})].value[1]
    IN  (IF later < earlier THEN "-" ELSE "+")
            \o FixedPercent(Abs(later - earlier), Abs(earlier), 1)

\* C25 as stated: the trend is that of the two most recent Observations of
\* the filing type of the latest Observation, shown exactly when both have a
\* value and the earlier value is not zero.
C25_TrendOfLatestFilingType ==
    (TrendReturned /\ x_in[1] # << >>) =>
        LET data == x_in[1]
            S == PositionsOfType(data, FilingType(LatestOf(data)))
        IN  /\ x_out[1].value # "" <=> TrendExpected(data, S)
            /\ TrendExpected(data, S) =>
                  x_out[1].value = " " \o DirectionTag(data, S) \o " "
                                       \o PercentChange(data, S) \o "% YoY"

\* C25: the trend shown next to a metric's latest value is the percent
\* change between the two most recent annual Observations (10-K, amendment
\* counted as annual) of the series, whatever the filing type of the latest
\* Observation; it is shown exactly when both exist with a value and the
\* earlier value is not zero; its direction tag is up when the later value
\* is greater, down when it is smaller and flat when they are equal.
C25_TrendOfAnnualValues ==
    TrendReturned =>
        LET data == x_in[1]
            S == PositionsOfType(data, "10-K")
        IN  /\ x_out[1].value # "" <=> TrendExpected(data, S)
            /\ TrendExpected(data, S) =>
                  x_out[1].value = " " \o DirectionTag(data, S) \o " "
                                       \o PercentChange(data, S) \o "% YoY"

\* three annual Observations with the values 0, 90 and 100: the trend is
\* that of the last two
C25_Witness ==
    /\ TrendReturned
    /\ Len(x_in[1]) = 3
    /\ x_in[1][1].value = Some(0) /\ x_in[1][2].value = Some(90)
    /\ x_in[1][3].value = Some(100)
    /\ x_out[1].value = " UP +11.1% YoY"

----------------------------------------------------------------------------
(* Claims about the derived figures of the report *)

ReportReturned == x_out # None /\ ~x_out[1].raised

Report == x_out[1].value

\* the Metric Series the document of the call holds for a metric, empty
\* when the metric is not a key of its category
SeriesOf(category, metric) ==
    IF metric \in DOMAIN x_in[1].financials[category]
    THEN x_in[1].financials[category][metric] ELSE << >>

\* the value of the latest Observation of a metric: None when the metric has
\* no Observation and when its latest Observation carries no value
LatestValue(category, metric) ==
    IF SeriesOf(category, metric) = << >> THEN None
    ELSE LatestOf(SeriesOf(category, metric)).value

Missing(category, metric) == LatestValue(category, metric) = None

ZeroOrMissing(category, metric) ==
    Missing(category, metric) \/ LatestValue(category, metric)[1] = 0

\* the places of the report where a line begins
LineStarts ==
    {1} \cup { k + 1 : k \in { j \in 1..Len(Report) : SubSeq(Report, j, j) = "\n" } }

\* the line beginning at place p begins with the text
LineBegins(p, text) ==
    p + Len(text) - 1 <= Len(Report) /\ SubSeq(Report, p, p + Len(text) - 1) = text

\* the titles of the sections of filing data
FilingSections ==
    { "## Income Statement (from SEC filings)", "## Balance Sheet (from SEC filings)",
      "## Cash Flow (from SEC filings)" }

\* the section of the report under the title holds the text: the title is
\* a line of the report, and the text lies after it and before the title
\* line of the next section
ShowsIn(title, text) ==
    LET starts == LineStarts
    IN  \E p \in starts :
            /\ LineBegins(p, title \o "\n")
            /\ LET later == { q \in starts : q > p /\ LineBegins(q, "## ") }
                   end == IF later = {} THEN Len(Report)
                          ELSE (CHOOSE q \in later : \A r \in later : q <= r) - 1
               IN  \E k \in p..(end - Len(text) + 1) :
                       SubSeq(Report, k, k + Len(text) - 1) = text

\* the filing data of the report hold the text somewhere
Shows(text) == \E title \in FilingSections : ShowsIn(title, text)

\* the call was made with supplementary data that name the figures of the
\* filing data in the company description and in the recommendations
SupplementaryGiven ==
    /\ "info" \in DOMAIN x_in[1].supplementary
    /\ x_in[1].supplementary.info = FullInfo
    /\ x_in[1].supplementary.recommendations = Recommendations

\* the numerator metric of each margin
MarginNumerator ==
    [Gross |-> "gross_profit", Operating |-> "operating_income", Net |-> "net_income"]

\* the text of a margin: its name and numerator / revenue * 100 to one
\* decimal place
MarginText(name) ==
    name \o ": "
        \o FixedPercent(LatestValue("income", MarginNumerator[name])[1],
                        LatestValue("income", "revenue")[1], 1)
        \o "%"

\* C22 as stated: the report is returned for every document, and a derived
\* figure with a missing numerator or a missing or zero denominator is left
\* out of it.
C22_GuardsNeverRaise ==
    x_out # None =>
        /\ ~x_out[1].raised
        /\ \A name \in DOMAIN MarginNumerator :
              ZeroOrMissing("income", "revenue")
                  \/ Missing("income", MarginNumerator[name])
              => ~Shows(name \o ": ")
        /\ Missing("balance_sheet", "total_liabilities")
              \/ ZeroOrMissing("balance_sheet", "stockholders_equity")
           => ~Shows("D/E: ")
        /\ Missing("balance_sheet", "current_assets")
              \/ ZeroOrMissing("balance_sheet", "current_liabilities")
           => ~Shows("Current: ")
        /\ Missing("balance_sheet", "long_term_debt") \/ Missing("balance_sheet", "cash")
           => ~Shows("Net Debt: ")
        /\ Missing("cash_flow", "operating_cash_flow") \/ Missing("cash_flow", "capex")
           => ~Shows("Free Cash Flow")

\* C23: a returned report has no Margins entry in its income statement when
\* the latest revenue is missing, zero or negative, no D/E entry in its
\* balance sheet when the latest stockholders' equity is missing or zero,
\* and no Current entry there when the latest current liabilities are
\* missing or zero, whatever the supplementary data.
C23_ZeroDenominatorGuards ==
    ReportReturned =>
        /\ Missing("income", "revenue") \/ LatestValue("income", "revenue")[1] <= 0
           => ~Shows("Margins")
        /\ ZeroOrMissing("balance_sheet", "stockholders_equity") => ~Shows("D/E: ")
        /\ ZeroOrMissing("balance_sheet", "current_liabilities") => ~Shows("Current: ")

\* with supplementary data that name the figures: a negative revenue with a
\* gross profit, and a zero equity with liabilities; the report is returned
\* without margins and without D/E
C23_Witness ==
    /\ ReportReturned /\ SupplementaryGiven
    /\ \/ /\ LatestValue("income", "revenue") = Some(0 - 50)
          /\ LatestValue("income", "gross_profit") = Some(80)
          /\ ~Shows("Margins")
       \/ /\ LatestValue("balance_sheet", "stockholders_equity") = Some(0)
          /\ LatestValue("balance_sheet", "total_liabilities") = Some(300)
          /\ Shows("Key Ratios") /\ ~Shows("D/E: ")

\* C24 as stated: with a positive latest revenue, each margin is shown
\* exactly when its numerator has a latest value, zero included, and it is
\* numerator / revenue * 100.
C24_MarginsIndependent ==
    ReportReturned
        /\ ~Missing("income", "revenue") /\ LatestValue("income", "revenue")[1] > 0
    => \A name \in DOMAIN MarginNumerator :
          /\ Shows(name \o ": ") <=> ~Missing("income", MarginNumerator[name])
          /\ ~Missing("income", MarginNumerator[name]) => Shows(MarginText(name))

\* C26 as stated: a Net Debt entry of long-term debt minus cash whenever
\* both have a latest value, a zero debt included, and none when cash has no
\* Observation.
C26_NetDebt ==
    ReportReturned =>
        /\ ~Missing("balance_sheet", "long_term_debt") /\ ~Missing("balance_sheet", "cash")
           => Shows("Net Debt: "
                    \o _format_number(Some(LatestValue("balance_sheet", "long_term_debt")[1]
                                           - LatestValue("balance_sheet", "cash")[1]),
                                      "$", ""))
        /\ SeriesOf("balance_sheet", "cash") = << >> => ~Shows("Net Debt: ")

\* C27: the cash-flow section of a returned report has a Free Cash Flow
\* line exactly when operating cash flow and capital expenditure both have
\* a latest value, zero included, and the figure is operating cash flow
\* minus the absolute value of the capital expenditure, whatever the
\* supplementary data.
C27_FreeCashFlow ==
    ReportReturned =>
        LET ocf == LatestValue("cash_flow", "operating_cash_flow")
            capex == LatestValue("cash_flow", "capex")
            section == "## Cash Flow (from SEC filings)"
        IN  /\ Shows("Free Cash Flow") <=> ocf # None /\ capex # None
            /\ ocf # None /\ capex # None =>
                  ShowsIn(section, "\n- **Free Cash Flow**: "
                        \o _format_number(Some(ocf[1] - Abs(capex[1])), "$", "") \o "\n")

\* a capital expenditure reported as a negative number, in a report with
\* supplementary data
C27_Witness ==
    /\ ReportReturned /\ SupplementaryGiven
    /\ LatestValue("cash_flow", "operating_cash_flow") = Some(100)
    /\ LatestValue("cash_flow", "capex") = Some(0 - 30)
    /\ ShowsIn("## Cash Flow (from SEC filings)", "\n- **Free Cash Flow**: $70.00\n")

----------------------------------------------------------------------------
(* Claims about the watchlist *)

\* a symbol without a '$' prefix and without a letter in lower case
Normalized(symbol) ==
    /\ Len(symbol) = 0 \/ Head(symbol) # "$"
    /\ \A k \in 1..Len(symbol) : \A j \in 1..Len(LowerCase) : symbol[k] # LowerCase[j]

\* the symbols of the watchlist are normalized and pairwise distinct
SymbolsUnique ==
    /\ \A k \in 1..Len(TickerList) : Normalized(TickerList[k].symbol)
    /\ \A k, j \in 1..Len(TickerList) : TickerList[k].symbol = TickerList[j].symbol => k = j

\* the symbol a ticker is meant by: without white space around it, without
\* '$' prefix, letters in upper case
Meant(symbol) == LStrip(Upper(Strip(symbol)), "$")

Present(tickers, symbol) == \E k \in 1..Len(tickers) : tickers[k].symbol = Meant(symbol)

\* C30 as stated: the symbols stay normalized and pairwise distinct; adding
\* a symbol that is present fails and leaves the ticker list as it was, and
\* so does removing a symbol that is not present.
C30_SymbolUniqueness ==
    [][ /\ SymbolsUnique => SymbolsUnique'
        /\ x_out'[1].op = "add_ticker" /\ Present(TickerList, x_out'[1].symbol)
           => ~x_out'[1].result.success /\ TickerList' = TickerList
        /\ x_out'[1].op = "remove_ticker" /\ ~Present(TickerList, x_out'[1].symbol)
           => ~x_out'[1].result.success /\ TickerList' = TickerList ]_vars

====
